---- MODULE Spec2Model ----
(***************************************************************************)
(* A model of the AIBTCC ledger engine: Transaction, MerkleTree, Block and *)
(* Blockchain of src/src/blockchain.js and src/src/merkleTree.js, driven   *)
(* by sendTransaction of src/blockchain-cli.js.                            *)
(*                                                                         *)
(* Strings are sequences of integer tokens and "+" on strings is \o.       *)
(* SHA-256 is collision free here: the digest of s is s between two        *)
(* bracket tokens, so two digests are equal exactly when their inputs are. *)
(* null is the empty sequence and prints as the token NULLTOK when it is   *)
(* concatenated into a string, as JavaScript prints "null".                *)
(***************************************************************************)
EXTENDS Integers, Sequences, FiniteSets, TLC

\* ------------------------------------------------------------- tokens
LB == 0 - 1
RB == 0 - 2
NULLTOK == 0 - 3
SIGTOK == 0 - 4
TXTOK == 0 - 5
ZEROTOK == 0 - 6
ERRTOK == 0 - 7

Null == << >>

\* JavaScript's string conversion of a nullable string inside "+".
Str(x) == IF x = Null THEN <<NULLTOK>> ELSE x

\* crypto.createHash("sha256").update(data).digest("hex")
sha256(data) == <<LB>> \o data \o <<RB>>

\* ------------------------------------------------------------- order on hex strings
\* The lexicographic order of two hex digests is the order of their leading
\* characters, which is unrelated to the inputs: a mixing function of the
\* input decides it, and the token order breaks ties so the order is total.
RECURSIVE RankFrom(_, _, _)
RankFrom(s, i, acc) ==
  IF i > Len(s) THEN acc
  ELSE RankFrom(s, i + 1, (acc * 31 + s[i] + 7) % 9973)

Rank(s) == RankFrom(s, 1, 17)

RECURSIVE LexLess(_, _, _)
LexLess(a, b, i) ==
  IF i > Len(b) THEN FALSE
  ELSE IF i > Len(a) THEN TRUE
  ELSE IF a[i] # b[i] THEN a[i] < b[i]
  ELSE LexLess(a, b, i + 1)

\* a < b on strings
StrLess(a, b) ==
  IF Rank(a) # Rank(b) THEN Rank(a) < Rank(b) ELSE LexLess(a, b, 1)

\* ------------------------------------------------------------- addresses
NullAddr == 0
G == 1
M == 2
A == 3
B == 4

AddrStr(a) == IF a = NullAddr THEN <<NULLTOK>> ELSE <<a>>

\* ------------------------------------------------------------- MerkleTree
\* A Node is a record; an absent child (null) is the empty sequence and a
\* present one a sequence of one Node.
Node(left, right, value, isCopied) ==
  [left |-> left, right |-> right, value |-> value, isCopied |-> isCopied]

NodeHash(data) == sha256(data)

NodeCopy(n) == Node(n.left, n.right, n.value, TRUE)

maxDepth == 10

\* The node buildTreeRec returns when it throws "Max recursion depth exceeded".
DepthError == Node(Null, Null, <<ERRTOK>>, FALSE)

\* PadOdd that completes the level with a copy of its first node.
PadOdd_First(nodes) ==
  IF Len(nodes) % 2 = 1 THEN Append(nodes, NodeCopy(nodes[1])) ELSE nodes

PadOdd(nodes) ==
  IF Len(nodes) % 2 = 1 THEN Append(nodes, NodeCopy(nodes[Len(nodes)])) ELSE nodes

NewLevel(nodes) ==
  [k \in 1..(Len(nodes) \div 2) |->
     LET left == nodes[2 * k - 1]
         right == nodes[2 * k]
     IN Node(<<left>>, <<right>>, NodeHash(left.value \o right.value), FALSE)]

RECURSIVE buildTreeRec(_, _)
buildTreeRec(nodes, depth) ==
  IF depth > maxDepth THEN DepthError
  ELSE IF Len(nodes) = 1 THEN nodes[1]
  ELSE buildTreeRec(NewLevel(PadOdd(nodes)), depth + 1)

buildTree(values) ==
  LET leaves == [k \in 1..Len(values) |-> Node(Null, Null, NodeHash(values[k]), FALSE)]
  IN buildTreeRec(PadOdd(leaves), 0)

getRootHash(values) == buildTree(values).value

\* The loop of getProof from `node` on, `proof` being what is collected so far.
RECURSIVE getProofFrom(_, _, _)
getProofFrom(node, leafValue, proof) ==
  IF node.left # Null /\ node.left[1].value = leafValue
    THEN getProofFrom(node.left[1], leafValue,
                      Append(proof, IF node.right # Null THEN node.right[1].value ELSE Null))
  ELSE IF node.right # Null /\ node.right[1].value = leafValue
    THEN getProofFrom(node.right[1], leafValue,
                      Append(proof, IF node.left # Null THEN node.left[1].value ELSE Null))
  ELSE (IF node.left # Null THEN Append(proof, node.left[1].value) ELSE proof)
       \o (IF node.right # Null THEN <<node.right[1].value>> ELSE << >>)

\* getProof: found = FALSE is the throw of "Leaf not found in the Merkle Tree".
getProof(root, leafValue) ==
  LET proof == getProofFrom(root, leafValue, << >>)
  IN [found |-> proof # << >>, proof |-> proof]

\* The hash verifyProof holds when its loop over the proof ends.
RECURSIVE proofHash(_, _, _)
proofHash(hash, proof, i) ==
  IF i > Len(proof) THEN hash
  ELSE LET sibling == proof[i]
       IN proofHash(IF sibling = Null THEN NodeHash(hash)
                    ELSE IF StrLess(hash, sibling) THEN NodeHash(hash \o sibling)
                    ELSE NodeHash(sibling \o hash),
                    proof, i + 1)

\* What verifyProof returns.
verifyProof(leaf, proof, root) ==
  LET hash == proofHash(leaf, proof, 1)
  IN root

\* JavaScript truthiness of a string or null: `if (result)`.
Truthy(v) == v # << >>

\* ------------------------------------------------------------- Transaction
\* calculateHash that digests the signature with the content fields.
TxCalculateHash_WithSignature(tx) ==
  sha256(AddrStr(tx.fromAddress) \o AddrStr(tx.toAddress) \o <<tx.amount>>
         \o Str(tx.originTransactionHash) \o <<tx.timestamp>> \o Str(tx.signature))

\* Transaction.calculateHash: the digest of the five content fields.
TxCalculateHash(tx) ==
  sha256(AddrStr(tx.fromAddress) \o AddrStr(tx.toAddress) \o <<tx.amount>>
         \o Str(tx.originTransactionHash) \o <<tx.timestamp>>)

\* new Transaction(fromAddress, toAddress, amount, timestamp, signature, blockHash, originTransactionHash)
Transaction(fromAddress, toAddress, amount, timestamp, signature, blockHash, originTransactionHash) ==
  LET t == [fromAddress |-> fromAddress, toAddress |-> toAddress, amount |-> amount,
            timestamp |-> timestamp, signature |-> signature, blockHash |-> blockHash,
            originTransactionHash |-> originTransactionHash, hash |-> Null]
  IN [t EXCEPT !.hash = TxCalculateHash(t)]

\* The DER signature the key of wallet `address` makes over a digest.
Signature(address, digest) == <<SIGTOK, address>> \o digest

\* signWithAddress, for an address whose wallet file exists.
signWithAddress(tx, address) ==
  [tx EXCEPT !.signature = Signature(address, TxCalculateHash(tx))]

\* The hex encoding of the public key of the wallet of `address`; a wallet
\* address is a digest prefix and decodes to no key.
PublicKey(address) == 10 + address

IsPublicKey(fromAddress) == fromAddress > 10

\* key.verify(digest, signature) for key = ec.keyFromPublic(fromAddress, "hex")
KeyVerify(fromAddress, digest, signature) ==
  \E address \in 1..4 :
    fromAddress = PublicKey(address) /\ signature = Signature(address, digest)

\* isValid that tests the signature before it tests fromAddress.
isValid_SignatureFirst(tx) ==
  IF tx.signature = Null THEN "throw"
  ELSE IF tx.fromAddress = NullAddr THEN "true"
  ELSE IF ~IsPublicKey(tx.fromAddress) THEN "throw"
  ELSE IF KeyVerify(tx.fromAddress, TxCalculateHash(tx), tx.signature) THEN "true"
  ELSE "false"

\* Transaction.isValid: "true", "false", or "throw" for either of its errors.
isValid(tx) ==
  LET hashToVerify == TxCalculateHash(tx)
  IN IF tx.fromAddress = NullAddr THEN "true"
     ELSE IF tx.signature = Null THEN "throw"
     ELSE IF ~IsPublicKey(tx.fromAddress) THEN "throw"
     ELSE IF KeyVerify(tx.fromAddress, hashToVerify, tx.signature) THEN "true"
     ELSE "false"

\* verifyTransaction: FALSE is the throw of the hash-mismatch error.
verifyTransaction(tx) == tx.hash = TxCalculateHash(tx)

\* The row save() inserts into table transactions.
TransactionRow(tx) == tx

\* The transaction Transaction.load and getLatestTransactionForAddress build
\* from a row of table transactions: all seven fields, then tx.hash = row.hash.
TransactionOfRow(row) ==
  [Transaction(row.fromAddress, row.toAddress, row.amount, row.timestamp, row.signature,
               row.blockHash, row.originTransactionHash) EXCEPT !.hash = row.hash]

\* The transaction loadPendingTransactions and verifyPendingTransactions build
\* from a row of table pending_transactions: five fields, then tx.hash = row.hash.
TransactionOfPendingRow(row) ==
  [Transaction(row.fromAddress, row.toAddress, row.amount, row.timestamp, row.signature,
               Null, Null) EXCEPT !.hash = row.hash]

\* The transaction getAllTransactions builds from a row of table transactions.
TransactionOfAll(row) ==
  Transaction(row.fromAddress, row.toAddress, row.amount, row.timestamp, row.signature,
              row.blockHash, row.originTransactionHash)

\* The paths that rebuild a Transaction from a row, and what each returns:
\* only Transaction.load calls verifyTransaction.
LoadPaths == {"load", "getLatestTransactionForAddress", "getAllTransactions",
              "loadPendingTransactions", "verifyPendingTransactions"}

PendingPaths == {"loadPendingTransactions", "verifyPendingTransactions"}

Reconstruct(via, row) ==
  LET tx == IF via \in PendingPaths THEN TransactionOfPendingRow(row)
            ELSE IF via = "getAllTransactions" THEN TransactionOfAll(row)
            ELSE TransactionOfRow(row)
  IN [tx |-> tx,
      result |-> IF via = "load" /\ ~verifyTransaction(tx) THEN "throw" ELSE "ok"]

\* ------------------------------------------------------------- Block
ZeroHash == <<ZEROTOK>>

calculateMerkleRoot(transactions) ==
  IF Len(transactions) = 0 THEN ZeroHash
  ELSE getRootHash([k \in 1..Len(transactions) |-> transactions[k].hash])

\* calculateLastOriginTransactionHash without the step back to the
\* second-to-last transaction.
calculateLastOriginTransactionHash_LastOnly(transactions) ==
  IF Len(transactions) = 0 THEN Null
  ELSE transactions[Len(transactions)].originTransactionHash

calculateLastOriginTransactionHash(transactions) ==
  IF Len(transactions) = 0 THEN Null
  ELSE LET lastTransaction == transactions[Len(transactions)]
       IN IF lastTransaction.originTransactionHash # Null
            THEN lastTransaction.originTransactionHash
          ELSE IF Len(transactions) >= 2
            THEN transactions[Len(transactions) - 1].originTransactionHash
          ELSE Null

\* TxJson without the destructuring that drops blockHash.
TxJson_WithBlockHash(tx) ==
  <<TXTOK>> \o AddrStr(tx.fromAddress) \o AddrStr(tx.toAddress)
  \o <<tx.amount, tx.timestamp>> \o Str(tx.signature) \o Str(tx.blockHash)
  \o Str(tx.originTransactionHash) \o Str(tx.hash)

\* JSON.stringify of one transaction without its blockHash field.
TxJson(tx) ==
  <<TXTOK>> \o AddrStr(tx.fromAddress) \o AddrStr(tx.toAddress)
  \o <<tx.amount, tx.timestamp>> \o Str(tx.signature)
  \o Str(tx.originTransactionHash) \o Str(tx.hash)

RECURSIVE TransactionsData(_, _)
TransactionsData(transactions, i) ==
  IF i > Len(transactions) THEN << >>
  ELSE TxJson(transactions[i]) \o TransactionsData(transactions, i + 1)

\* Block.calculateHash
BlockCalculateHash(b) ==
  sha256(b.previousHash \o <<b.timestamp>> \o b.merkleRoot \o <<b.nonce>>
         \o Str(b.originTransactionHash) \o TransactionsData(b.transactions, 1))

\* Block whose lineage summary is the last transaction's origin, without the
\* step back over a reward.
Block_LastOrigin(index, previousHash, timestamp, transactions, difficulty) ==
  LET b == [index |-> index, previousHash |-> previousHash, timestamp |-> timestamp,
            transactions |-> transactions, difficulty |-> difficulty,
            merkleRoot |-> calculateMerkleRoot(transactions), nonce |-> 0,
            originTransactionHash |->
              IF Len(transactions) = 0 THEN Null
              ELSE transactions[Len(transactions)].originTransactionHash,
            hash |-> Null]
  IN [b EXCEPT !.hash = BlockCalculateHash(b)]

\* new Block(index, previousHash, timestamp, transactions, difficulty)
Block(index, previousHash, timestamp, transactions, difficulty) ==
  LET b == [index |-> index, previousHash |-> previousHash, timestamp |-> timestamp,
            transactions |-> transactions, difficulty |-> difficulty,
            merkleRoot |-> calculateMerkleRoot(transactions), nonce |-> 0,
            originTransactionHash |-> calculateLastOriginTransactionHash(transactions),
            hash |-> Null]
  IN [b EXCEPT !.hash = BlockCalculateHash(b)]

\* Block.hasValidTransactions from transaction i on: "true", "false", or
\* "throw" when the call rejects. verifyTransaction and isValid throw through
\* it, and class Block defines no getBalanceOfAddress, so the call at line 401
\* throws a TypeError for the first transaction that passes both.
RECURSIVE hasValidTransactionsFrom(_, _)
hasValidTransactionsFrom(transactions, i) ==
  IF i > Len(transactions) THEN "true"
  ELSE IF ~verifyTransaction(transactions[i]) THEN "throw"
  ELSE IF isValid(transactions[i]) = "throw" THEN "throw"
  ELSE IF isValid(transactions[i]) = "false" THEN "false"
  ELSE "throw"

hasValidTransactions(b) == hasValidTransactionsFrom(b.transactions, 1)

\* The k-th hex character of a digest is '0': the characters are taken from
\* the digest's rank, two bits each, so one character in four is '0'.
HexIsZero(hash, k) ==
  IF k = 1 THEN Rank(hash) % 4 = 0
  ELSE IF k = 2 THEN (Rank(hash) \div 4) % 4 = 0
  ELSE IF k = 3 THEN (Rank(hash) \div 16) % 4 = 0
  ELSE FALSE

\* The zero prefix test over one character fewer than the difficulty.
HasZeroPrefix_Short(hash, d) == \A k \in 1..(d - 1) : HexIsZero(hash, k)

\* hash.substring(0, difficulty) === Array(difficulty + 1).join("0")
HasZeroPrefix(hash, d) == \A k \in 1..d : HexIsZero(hash, k)

RECURSIVE mineBlock(_, _)
mineBlock(b, d) ==
  IF HasZeroPrefix(b.hash, d) THEN b
  ELSE LET n == [b EXCEPT !.nonce = b.nonce + 1]
       IN mineBlock([n EXCEPT !.hash = BlockCalculateHash(n)], d)

\* ------------------------------------------------------------- Blockchain: constants
difficulty == 0
miningReward == 100
transactionThreshold == 2
minerAddress == M
genesisAddress == G
initialReward == 1000000

\* isChainValid over a chain (blocks 1..Len, block 1 being the genesis block).
ChainValid(c) ==
  \A i \in 2..Len(c) :
    /\ c[i].hash = BlockCalculateHash(c[i])
    /\ c[i].previousHash = c[i - 1].hash
    /\ c[i].merkleRoot = calculateMerkleRoot(c[i].transactions)

\* ------------------------------------------------------------- bounds
\* Submissions admitted by sendTransaction in one run.
MaxTx == 2
\* Submissions admitted in one run of the ledger fed with one kind of transfer.
MaxChainTx == 4
\* Fields of blocks changed from outside the ledger in one run.
MaxTamper == 1
\* Leaf values of a MerkleTree under test.
MaxLeaves == 5

\* ------------------------------------------------------------- processes
\* The constructor's createGenesisBlockWithReward, which nobody awaits.
GenProc == 0
\* The command loop of the CLI (main), which awaits each command.
CliProc == 1
\* A caller of minePendingTransactions beside the command loop (a timer).
TimerProc == 2
Miners == {TimerProc}
Procs == {GenProc, CliProc} \cup Miners

Wallets == {G, A}
Recipients == {A, B}
SendAmounts == {10, initialReward}
MinerInputs == {minerAddress, NullAddr}

VARIABLES
  chain,                \* Blockchain.chain
  pendingTransactions,  \* Blockchain.pendingTransactions
  miningLock,           \* the lock named "miningLock" is held
  dbBlocks,             \* table blocks
  dbTransactions,       \* table transactions
  dbPending,            \* table pending_transactions
  dbBalances,           \* table address_balances
  dbProofs,             \* table merkle_proof_paths
  now,                  \* the clock Date.now() reads
  nsent,                \* submissions admitted so far
  proc,                 \* each control path: where it is and its locals
  tampers,              \* fields changed from outside the ledger so far
  mk,                   \* a MerkleTree under test
  ut,                   \* a Transaction or a Block under test
  hold                  \* the current hold of the mining lock: what its holder met

vars == <<chain, pendingTransactions, miningLock, dbBlocks, dbTransactions, dbPending,
          dbBalances, dbProofs, now, nsent, proc, tampers, mk, ut, hold>>

ledgerVars == <<chain, pendingTransactions, miningLock, dbBlocks, dbTransactions, dbPending,
                dbBalances, dbProofs, now, nsent, proc, tampers, hold>>

dbVars == <<dbBlocks, dbTransactions, dbPending, dbBalances, dbProofs>>

NoTx == Transaction(NullAddr, NullAddr, 0, 0, Null, Null, Null)

Local(pc, tx, miner, bi, ti) == [pc |-> pc, tx |-> tx, miner |-> miner, bi |-> bi, ti |-> ti]

Idle == Local("idle", NoTx, NullAddr, 0, 0)

\* ------------------------------------------------------------- the store
Addresses == {G, M, A, B}

\* SumAmounts without the debit query.
RECURSIVE SumAmounts_CreditsOnly(_, _)
SumAmounts_CreditsOnly(rows, address) ==
  IF rows = {} THEN 0
  ELSE LET r == CHOOSE x \in rows : TRUE
       IN (IF r.toAddress = address THEN r.amount ELSE 0)
          + SumAmounts_CreditsOnly(rows \ {r}, address)

RECURSIVE SumAmounts(_, _)
SumAmounts(rows, address) ==
  IF rows = {} THEN 0
  ELSE LET r == CHOOSE x \in rows : TRUE
       IN (IF r.fromAddress = address THEN 0 - r.amount ELSE 0)
          + (IF r.toAddress = address THEN r.amount ELSE 0)
          + SumAmounts(rows \ {r}, address)

\* getBalanceOfAddress: credits minus debits over table transactions.
getBalanceOfAddress(address) == SumAmounts(dbTransactions, address)

\* getLatestTransactionForAddress: the rows ORDER BY timestamp DESC LIMIT 1 may return.
LatestTransactions(address) ==
  {r \in dbTransactions :
     /\ r.fromAddress = address
     /\ \A o \in dbTransactions : o.fromAddress = address => o.timestamp <= r.timestamp}

\* A row of table blocks.
BlockRow(b) ==
  [hash |-> b.hash, previousHash |-> b.previousHash, timestamp |-> b.timestamp,
   nonce |-> b.nonce, difficulty |-> b.difficulty, merkleRoot |-> b.merkleRoot,
   index |-> b.index, originTransactionHash |-> b.originTransactionHash]

\* A row of table pending_transactions (savePending stores calculateHash()).
PendingRow(tx) == [tx EXCEPT !.hash = TxCalculateHash(tx), !.blockHash = Null]

\* updateBalances: the upserts of one block, in order.
RECURSIVE updateBalances(_, _, _)
updateBalances(bal, transactions, i) ==
  IF i > Len(transactions) THEN bal
  ELSE LET tx == transactions[i]
           b1 == IF tx.fromAddress # NullAddr
                   THEN [bal EXCEPT ![tx.fromAddress] = @ - tx.amount] ELSE bal
           b2 == IF tx.toAddress # NullAddr
                   THEN [b1 EXCEPT ![tx.toAddress] = @ + tx.amount] ELSE b1
       IN updateBalances(b2, transactions, i + 1)

\* Block.save, lines 443-446: getProof finds a proof for every transaction of b.
ProofsFound(b) ==
  LET root == buildTree([k \in 1..Len(b.transactions) |-> b.transactions[k].hash])
  IN \A k \in 1..Len(b.transactions) : getProof(root, b.transactions[k].hash).found

\* The rows saveMerkleProof writes for a block: one for each transaction, in
\* order, up to the first for which getProof throws.
MerkleProofRows(b) ==
  LET root == buildTree([k \in 1..Len(b.transactions) |-> b.transactions[k].hash])
  IN {[blockHash |-> b.hash, transactionHash |-> b.transactions[k].hash,
       proofPath |-> getProof(root, b.transactions[k].hash).proof] :
        k \in {j \in 1..Len(b.transactions) :
                 \A i \in 1..j : getProof(root, b.transactions[i].hash).found}}

\* ------------------------------------------------------------- Init
\* The genesis block with its issuance credited to the miner's address.
GenesisBlock_ToMiner ==
  mineBlock(Block(0, <<0>>, 0,
                  <<Transaction(NullAddr, minerAddress, initialReward, 0, Null, Null, Null)>>,
                  difficulty),
            difficulty)

GenesisBlock ==
  mineBlock(Block(0, <<0>>, 0,
                  <<Transaction(NullAddr, genesisAddress, initialReward, 0, Null, Null, Null)>>,
                  difficulty),
            difficulty)

NoTree == [values |-> << >>, leaf |-> Null, proof |-> << >>, root |-> Null,
           result |-> Null, op |-> "none"]

\* Nothing is under test.
NoUnit == [kind |-> "none", tx |-> Null, block |-> Null, d |-> 0, result |-> Null,
           op |-> "none", row |-> Null, via |-> "none"]

\* No caller is inside the try block of minePendingTransactions.
NoHold == [open |-> FALSE, n |-> 0, arrived |-> 0, blocks |-> 0, failed |-> FALSE]

\* The holder left the loop through the catch block; what it did before is
\* not kept.
FailedHold == [open |-> FALSE, n |-> 0, arrived |-> 0, blocks |-> 0, failed |-> TRUE]

InitLedger ==
  /\ chain = <<GenesisBlock>>
  /\ pendingTransactions = << >>
  /\ miningLock = FALSE
  /\ dbBlocks = {}
  /\ dbTransactions = {}
  /\ dbPending = << >>
  /\ dbBalances = [a \in Addresses |-> 0]
  /\ dbProofs = {}
  /\ now = 0
  /\ nsent = 0
  /\ proc = [p \in Procs |-> IF p = GenProc THEN Local("saveBlock", NoTx, NullAddr, 1, 1) ELSE Idle]
  /\ tampers = 0
  /\ hold = NoHold

Init == InitLedger /\ mk = NoTree /\ ut = NoUnit

\* ------------------------------------------------------------- steps
\* A step is one answer of the store or of the lock together with the
\* synchronous code that runs on it, up to the next call that is awaited.
\* The store may reject any query (a lost connection, a duplicate key): each
\* step that awaits an answer has a branch for the rejection.

\* Date.now(): two reads are separated by an answer of the store or by a
\* line the user types, so the clock has moved on.
DateNow == now + 1

Goto(p, pc) == proc' = [proc EXCEPT ![p].pc = pc]

Return(p) == proc' = [proc EXCEPT ![p] = Idle]

\* acquireLock("miningLock"): try-style, TRUE when the lock was free.
acquireLock == ~miningLock

\* releaseLock("miningLock"): the lock is free.
releaseLock == miningLock' = FALSE

\* An address of the wrong length.
ShortAddress == 5

\* address.length is within 24..30 (lines 109 and 144).
LengthOk(address) == address \in Addresses

\* The private key in the wallet file of `address`, and a key of the wrong length.
PrivateKey(address) == 20 + address

ShortKey == 20

\* The address derived from a private key (lines 132-134).
DerivedAddress(privateKey) == privateKey - 20

\* parseFloat of the amount the user types (line 149).
AmountTexts == {"10", "1000000", "0", "-5", "abc"}

parseFloat(text) ==
  IF text = "10" THEN [nan |-> FALSE, value |-> 10]
  ELSE IF text = "1000000" THEN [nan |-> FALSE, value |-> 1000000]
  ELSE IF text = "0" THEN [nan |-> FALSE, value |-> 0]
  ELSE IF text = "-5" THEN [nan |-> FALSE, value |-> 0 - 5]
  ELSE [nan |-> TRUE, value |-> 0]

\* Admission without the check of the sender's balance.
Admission_NoBalanceCheck(from, privateKey, to, amount) ==
  IF ~LengthOk(from) THEN "Invalid wallet address."
  ELSE IF from \notin Wallets THEN "Wallet not found."
  ELSE IF privateKey <= ShortKey THEN "Invalid private key."
  ELSE IF DerivedAddress(privateKey) # from
    THEN "Private key does not correspond to the provided address."
  ELSE IF ~LengthOk(to) THEN "Invalid wallet address."
  ELSE IF amount.nan \/ amount.value <= 0 THEN "Invalid amount."
  ELSE "ok"

\* The checks of sendTransaction, lines 106-161, in their order: the message
\* of the first one that fails, or "ok".
Admission(from, privateKey, to, amount) ==
  IF ~LengthOk(from) THEN "Invalid wallet address."
  ELSE IF from \notin Wallets THEN "Wallet not found."
  ELSE IF privateKey <= ShortKey THEN "Invalid private key."
  ELSE IF DerivedAddress(privateKey) # from
    THEN "Private key does not correspond to the provided address."
  ELSE IF ~LengthOk(to) THEN "Invalid wallet address."
  ELSE IF amount.nan \/ amount.value <= 0 THEN "Invalid amount."
  ELSE IF getBalanceOfAddress(from) < amount.value THEN "Insufficient funds in the wallet."
  ELSE "ok"

\* sendTransaction up to its second query: the chain check, the input
\* checks and the sender's balance read from table transactions.
Submit(from, to, amount, max) ==
  /\ proc[CliProc].pc = "idle"
  /\ nsent < max
  /\ ChainValid(chain)
  /\ Admission(from, PrivateKey(from), to, [nan |-> FALSE, value |-> amount]) = "ok"
  /\ proc' = [proc EXCEPT ![CliProc] =
                Local("getLatest", Transaction(from, to, amount, 0, Null, Null, Null),
                      NullAddr, 0, 0)]
  /\ nsent' = nsent + 1
  /\ UNCHANGED <<chain, pendingTransactions, miningLock, dbVars, now, tampers, mk, ut, hold>>

SendTransaction(from, to, amount) == Submit(from, to, amount, MaxTx)

\* The transaction sendTransaction builds and signs, lines 166-173.
BuildTransaction(latest, t) ==
  LET l == proc[CliProc].tx
      tx == Transaction(l.fromAddress, l.toAddress, l.amount, t, Null, Null, latest)
  IN /\ now' = t
     /\ proc' = [proc EXCEPT ![CliProc].pc = "savePending",
                             ![CliProc].tx = signWithAddress(tx, l.fromAddress)]

\* getLatestTransactionForAddress answers.
GetLatest ==
  /\ proc[CliProc].pc = "getLatest"
  /\ \/ /\ LET rows == LatestTransactions(proc[CliProc].tx.fromAddress)
           IN IF rows = {} THEN BuildTransaction(Null, DateNow)
              ELSE \E r \in rows : BuildTransaction(r.hash, DateNow)
     \/ /\ Return(CliProc)
        /\ UNCHANGED now
  /\ UNCHANGED <<chain, pendingTransactions, miningLock, dbVars, nsent, tampers, mk, ut, hold>>

\* savePending answers: the row is in pending_transactions and the
\* transaction is pushed onto the in-memory queue, or the insert is rejected
\* (a duplicate primary key, or a failure of the store).
SavePending ==
  /\ proc[CliProc].pc = "savePending"
  /\ LET tx == proc[CliProc].tx
         dup == \E k \in 1..Len(dbPending) : dbPending[k].hash = TxCalculateHash(tx)
     IN \/ /\ ~dup
           /\ dbPending' = Append(dbPending, PendingRow(tx))
           /\ pendingTransactions' = Append(pendingTransactions, tx)
           /\ Goto(CliProc, "loadPending")
           /\ hold' = IF hold.open THEN [hold EXCEPT !.arrived = @ + 1] ELSE hold
        \/ /\ Return(CliProc)
           /\ UNCHANGED <<dbPending, pendingTransactions, hold>>
  /\ UNCHANGED <<chain, miningLock, dbBlocks, dbTransactions, dbBalances, dbProofs, now,
                 nsent, tampers, mk, ut>>

\* loadPendingTransactions answers: mine when the stored count reaches the threshold.
LoadPending ==
  /\ proc[CliProc].pc = "loadPending"
  /\ \/ /\ IF Len(dbPending) >= transactionThreshold
             THEN proc' = [proc EXCEPT ![CliProc] = Local("acquire", NoTx, minerAddress, 0, 0)]
             ELSE Return(CliProc)
     \/ /\ Return(CliProc)
  /\ UNCHANGED <<chain, pendingTransactions, miningLock, dbVars, now, nsent, tampers, mk, ut, hold>>

\* A batch of one transaction, whatever the threshold.
Batch_One(queue) == SubSeq(queue, 1, 1)

\* The batch one turn of the while loop takes from the queue, lines 647-652.
Batch(queue) ==
  SubSeq(queue, 1, IF Len(queue) < transactionThreshold THEN Len(queue) ELSE transactionThreshold)

\* BlockTransactions with the reward put in front of the batch.
BlockTransactions_RewardFirst(queue, miner, t) ==
  IF miner # NullAddr
    THEN <<Transaction(NullAddr, miner, miningReward, t, Null, Null, Null)>> \o Batch(queue)
    ELSE Batch(queue)

\* The transactions of the block: the batch and, for a miner, the reward.
BlockTransactions(queue, miner, t) ==
  IF miner # NullAddr
    THEN Append(Batch(queue), Transaction(NullAddr, miner, miningReward, t, Null, Null, Null))
    ELSE Batch(queue)

\* The re-check of the tail block's lineage summary, lines 676-686.
LineageOk(previousBlock) ==
  previousBlock.originTransactionHash
    = calculateLastOriginTransactionHash(previousBlock.transactions)

\* A while test that lets the loop run for a queue shorter than the threshold.
LoopTest_Any(queue) == Len(queue) >= 1

\* The while test of minePendingTransactions, line 642.
LoopTest(queue) == Len(queue) >= transactionThreshold

\* One turn of the while loop by the holder of the lock, up to the call of
\* block.save() (lines 642-704), or the way out to the finally block.
LoopTurn(p, miner) ==
  IF LoopTest(pendingTransactions)
    THEN LET t == DateNow IN
           /\ now' = t
           /\ pendingTransactions' =
                SubSeq(pendingTransactions, Len(Batch(pendingTransactions)) + 1,
                       Len(pendingTransactions))
           /\ LET latest == chain[Len(chain)]
                  block == Block(Len(chain), latest.hash, t,
                                 BlockTransactions(pendingTransactions, miner, t),
                                 difficulty)
              IN IF LineageOk(latest)
                   THEN /\ chain' = Append(chain, mineBlock(block, difficulty))
                        /\ proc' = [proc EXCEPT ![p] =
                                      Local("saveBlock", NoTx, miner, Len(chain) + 1, 1)]
                   ELSE /\ chain' = chain
                        /\ proc' = [proc EXCEPT ![p] = Local("release", NoTx, NullAddr, 0, 0)]
    ELSE /\ proc' = [proc EXCEPT ![p] = Local("release", NoTx, NullAddr, 0, 0)]
         /\ UNCHANGED <<chain, pendingTransactions, now>>

\* The hold that starts when caller p has taken the lock and made its first
\* loop test (lines 632-642): n is the length of the queue it found, blocks
\* the blocks it has pushed, arrived the transactions queued while it is in
\* the loop, failed whether it left the loop through the catch block.
HoldStart(p) ==
  hold' = IF proc'[p].pc = "release" /\ LoopTest(pendingTransactions) THEN FailedHold
          ELSE [open |-> proc'[p].pc # "release",
                n |-> Len(pendingTransactions),
                arrived |-> 0,
                blocks |-> Len(chain') - Len(chain),
                failed |-> FALSE]

\* The hold after the holder's next loop test.
HoldTurn(p) ==
  hold' = IF proc'[p].pc = "release" /\ LoopTest(pendingTransactions) THEN FailedHold
          ELSE [hold EXCEPT !.open = proc'[p].pc # "release",
                            !.blocks = @ + Len(chain') - Len(chain)]

\* The hold after a step of block.save(): a rejection leads to the catch block.
HoldAfterSave(p) ==
  hold' = IF p # GenProc /\ proc'[p].pc = "release" THEN FailedHold ELSE hold

\* Acquire without the early return of line 635.
Acquire_NoReturn(p, miner) ==
  /\ miningLock' = TRUE
  /\ LoopTurn(p, miner)
  /\ HoldStart(p)
  /\ UNCHANGED <<dbVars, nsent, tampers, mk, ut>>

\* Acquire whose early return goes through the release of the finally block.
Acquire_ReleaseOnFailure(p, miner) ==
  /\ IF acquireLock
       THEN miningLock' = TRUE /\ LoopTurn(p, miner) /\ HoldStart(p)
       ELSE /\ Return(p)
            /\ miningLock' = FALSE
            /\ UNCHANGED <<chain, pendingTransactions, now, hold>>
  /\ UNCHANGED <<dbVars, nsent, tampers, mk, ut>>

\* minePendingTransactions, lines 632-638, for a caller p: the lock answers.
\* It is taken and the loop starts, or the call returns.
Acquire(p, miner) ==
  /\ IF acquireLock
       THEN miningLock' = TRUE /\ LoopTurn(p, miner) /\ HoldStart(p)
       ELSE /\ Return(p)
            /\ UNCHANGED <<miningLock, chain, pendingTransactions, now, hold>>
  /\ UNCHANGED <<dbVars, nsent, tampers, mk, ut>>

\* The command loop's minePendingTransactions(blockchain.minerAddress).
AcquireLock ==
  /\ proc[CliProc].pc = "acquire"
  /\ Acquire(CliProc, proc[CliProc].miner)

\* A caller other than the command loop invokes minePendingTransactions(addr).
MineDirect(p, addr) ==
  /\ proc[p].pc = "idle"
  /\ Acquire(p, addr)

\* SaveFailed with a catch that returns without the finally block.
SaveFailed_NoFinally(p) ==
  proc' = [proc EXCEPT ![p] = Local(IF p = GenProc THEN "done" ELSE "idle", NoTx, NullAddr, 0, 0)]

\* Where a rejected block.save() leaves its caller: the catch of
\* minePendingTransactions, or the unhandled rejection of the constructor.
SaveFailed(p) ==
  proc' = [proc EXCEPT ![p] = Local(IF p = GenProc THEN "done" ELSE "release", NoTx, NullAddr, 0, 0)]

\* Block.save: the INSERT INTO blocks answers.
SaveBlock(p) ==
  /\ proc[p].pc = "saveBlock"
  /\ LET b == chain[proc[p].bi]
         dup == \E r \in dbBlocks : r.hash = b.hash
     IN \/ /\ ~dup
           /\ dbBlocks' = dbBlocks \cup {BlockRow(b)}
           /\ Goto(p, "saveTx")
        \/ /\ SaveFailed(p)
           /\ UNCHANGED dbBlocks
  /\ UNCHANGED <<chain, pendingTransactions, miningLock, dbTransactions, dbPending,
                 dbBalances, dbProofs, now, nsent, tampers, mk, ut>>
  /\ HoldAfterSave(p)

\* Block.save, lines 430-433: blockHash is assigned and tx.save() answers.
SaveTx(p) ==
  /\ proc[p].pc = "saveTx"
  /\ LET bi == proc[p].bi
         ti == proc[p].ti
         b == chain[bi]
         tx == [b.transactions[ti] EXCEPT !.blockHash = b.hash]
         dup == \E r \in dbTransactions : r.hash = tx.hash
     IN /\ chain' = [chain EXCEPT ![bi].transactions[ti] = tx]
        /\ \/ /\ verifyTransaction(tx) /\ ~dup
              /\ dbTransactions' = dbTransactions \cup {tx}
              /\ proc' = [proc EXCEPT
                            ![p].pc = IF ti = Len(b.transactions) THEN "updateBalances" ELSE "saveTx",
                            ![p].ti = ti + 1]
           \/ /\ SaveFailed(p)
              /\ UNCHANGED dbTransactions
  /\ UNCHANGED <<pendingTransactions, miningLock, dbBlocks, dbPending, dbBalances, dbProofs,
                 now, nsent, tampers, mk, ut>>
  /\ HoldAfterSave(p)

\* Block.save, line 435: updateBalances answers.
UpdateBalances(p) ==
  /\ proc[p].pc = "updateBalances"
  /\ \/ /\ dbBalances' = updateBalances(dbBalances, chain[proc[p].bi].transactions, 1)
        /\ Goto(p, "saveMerkle")
     \/ /\ SaveFailed(p)
        /\ UNCHANGED dbBalances
  /\ UNCHANGED <<chain, pendingTransactions, miningLock, dbBlocks, dbTransactions, dbPending,
                 dbProofs, now, nsent, tampers, mk, ut>>
  /\ HoldAfterSave(p)

\* Block.save, lines 437-448: the Merkle nodes and proofs are stored and save
\* resolves; or getProof throws for a transaction and save rejects after the
\* rows before it; or the store rejects.
SaveMerkle(p) ==
  /\ proc[p].pc = "saveMerkle"
  /\ \/ /\ dbProofs' = dbProofs \cup MerkleProofRows(chain[proc[p].bi])
        /\ IF ProofsFound(chain[proc[p].bi])
             THEN proc' = [proc EXCEPT ![p] =
                             IF p = GenProc THEN Local("done", NoTx, NullAddr, 0, 0)
                             ELSE Local("clearPending", NoTx, proc[p].miner, 0, 0)]
             ELSE SaveFailed(p)
     \/ /\ SaveFailed(p)
        /\ UNCHANGED dbProofs
  /\ UNCHANGED <<chain, pendingTransactions, miningLock, dbBlocks, dbTransactions, dbPending,
                 dbBalances, now, nsent, tampers, mk, ut>>
  /\ HoldAfterSave(p)

\* ClearPending that empties the in-memory queue with the table and leaves the loop.
ClearPending_ClearsQueue(p) ==
  /\ proc[p].pc = "clearPending"
  /\ dbPending' = << >>
  /\ pendingTransactions' = << >>
  /\ proc' = [proc EXCEPT ![p] = Local("release", NoTx, NullAddr, 0, 0)]
  /\ hold' = [hold EXCEPT !.open = FALSE]
  /\ UNCHANGED <<chain, now, miningLock, dbBlocks, dbTransactions, dbBalances, dbProofs, nsent,
                 tampers, mk, ut>>

\* clearPendingTransactions answers (DELETE FROM pending_transactions) and
\* the while loop takes its next turn; or it is rejected.
ClearPending(p) ==
  /\ proc[p].pc = "clearPending"
  /\ \/ /\ dbPending' = << >>
        /\ LoopTurn(p, proc[p].miner)
        /\ HoldTurn(p)
     \/ /\ proc' = [proc EXCEPT ![p] = Local("release", NoTx, NullAddr, 0, 0)]
        /\ hold' = FailedHold
        /\ UNCHANGED <<dbPending, chain, pendingTransactions, now>>
  /\ UNCHANGED <<miningLock, dbBlocks, dbTransactions, dbBalances, dbProofs, nsent,
                 tampers, mk, ut>>

\* A release of the lock that does not wait for the end of the loop.
ReleaseLock_AnyTime(p) ==
  /\ proc[p].pc \in {"clearPending", "release"}
  /\ releaseLock
  /\ Return(p)
  /\ hold' = NoHold
  /\ UNCHANGED <<chain, pendingTransactions, dbVars, now, nsent, tampers, mk, ut>>

\* The finally of minePendingTransactions: releaseLock("miningLock") answers.
ReleaseLock(p) ==
  /\ proc[p].pc = "release"
  /\ releaseLock
  /\ Return(p)
  /\ hold' = NoHold
  /\ UNCHANGED <<chain, pendingTransactions, dbVars, now, nsent, tampers, mk, ut>>

Next ==
  \/ \E from \in Wallets, to \in Recipients, amount \in SendAmounts :
       SendTransaction(from, to, amount)
  \/ GetLatest
  \/ SavePending
  \/ LoadPending
  \/ AcquireLock
  \/ \E p \in Miners, addr \in MinerInputs : MineDirect(p, addr)
  \/ \E p \in Procs : SaveBlock(p)
  \/ \E p \in Procs : SaveTx(p)
  \/ \E p \in Procs : UpdateBalances(p)
  \/ \E p \in Procs : SaveMerkle(p)
  \/ \E p \in Procs : ClearPending(p)
  \/ \E p \in Procs : ReleaseLock(p)

Spec == Init /\ [][Next]_vars

\* The ledger fed with transfers of 10 from the genesis address to A and
\* mined for minerAddress, long enough for the chain to grow by two blocks
\* and for the queue to hold more than one batch.
SendTransfer == Submit(genesisAddress, A, 10, MaxChainTx)

NextChain ==
  \/ SendTransfer
  \/ GetLatest
  \/ SavePending
  \/ LoadPending
  \/ AcquireLock
  \/ \E p \in Miners : MineDirect(p, minerAddress)
  \/ \E p \in Procs : SaveBlock(p)
  \/ \E p \in Procs : SaveTx(p)
  \/ \E p \in Procs : UpdateBalances(p)
  \/ \E p \in Procs : SaveMerkle(p)
  \/ \E p \in Procs : ClearPending(p)
  \/ \E p \in Procs : ReleaseLock(p)

SpecChain == Init /\ [][NextChain]_vars

\* ------------------------------------------------------------- runTransactionAndMiningTest
MaxTestTx == 3

\* previousTransactionHash of the test's loop: the hash of the transaction it
\* built last, which is the last one queued or, with the queue empty, the
\* last transfer of the last block.
PreviousTransactionHash ==
  IF Len(pendingTransactions) > 0
    THEN pendingTransactions[Len(pendingTransactions)].hash
  ELSE IF Len(chain) > 1
    THEN chain[Len(chain)].transactions[transactionThreshold].hash
  ELSE Null

\* The program has ended on an unhandled promise rejection.
Exited == [p \in Procs |-> Local("exited", NoTx, NullAddr, 0, 0)]

\* One iteration of the test's loop up to its await of savePending (lines
\* 432-447), the chain check of line 415 before the first one. The call
\* tx.signWithAddress(fromAddress) is not awaited: with a wallet file for the
\* genesis address the signature is set before the call returns; without one
\* loadWallet throws inside the async function, the promise it returns is
\* rejected with nobody waiting for it, and the loop goes on with the
\* unsigned transaction. What the runtime does with the unhandled rejection
\* depends on its version: it warns, or it ends the process after the
\* synchronous stretch, in which savePending has issued its INSERT.
TestTransfer(hasWallet) ==
  /\ proc[CliProc].pc = "idle"
  /\ nsent < MaxTestTx
  /\ nsent = 0 => ChainValid(chain)
  /\ LET t == DateNow
         tx == Transaction(genesisAddress, A, 10, t, Null, Null, PreviousTransactionHash)
     IN /\ now' = t
        /\ nsent' = nsent + 1
        /\ \/ /\ hasWallet
              /\ proc' = [proc EXCEPT ![CliProc] =
                            Local("testSave", signWithAddress(tx, genesisAddress), NullAddr, 0, 0)]
              /\ UNCHANGED dbPending
           \/ /\ ~hasWallet
              /\ proc' = [proc EXCEPT ![CliProc] = Local("testSave", tx, NullAddr, 0, 0)]
              /\ UNCHANGED dbPending
           \/ /\ ~hasWallet
              /\ proc' = Exited
              /\ dbPending' \in {dbPending, Append(dbPending, PendingRow(tx))}
  /\ UNCHANGED <<chain, pendingTransactions, miningLock, dbBlocks, dbTransactions, dbBalances,
                 dbProofs, tampers, mk, ut, hold>>

\* savePending answers (line 447): the transaction is pushed onto the queue
\* and, with the queue at the threshold, minePendingTransactions is called
\* (lines 448-458); or the insert is rejected and the test ends.
TestSavePending ==
  /\ proc[CliProc].pc = "testSave"
  /\ LET tx == proc[CliProc].tx
         dup == \E k \in 1..Len(dbPending) : dbPending[k].hash = TxCalculateHash(tx)
     IN \/ /\ ~dup
           /\ dbPending' = Append(dbPending, PendingRow(tx))
           /\ pendingTransactions' = Append(pendingTransactions, tx)
           /\ IF Len(pendingTransactions) + 1 >= transactionThreshold
                THEN proc' = [proc EXCEPT ![CliProc] = Local("acquire", NoTx, minerAddress, 0, 0)]
                ELSE Return(CliProc)
           /\ hold' = IF hold.open THEN [hold EXCEPT !.arrived = @ + 1] ELSE hold
           /\ UNCHANGED nsent
        \/ /\ Return(CliProc)
           /\ nsent' = MaxTestTx + 1
           /\ UNCHANGED <<dbPending, pendingTransactions, hold>>
  /\ UNCHANGED <<chain, miningLock, dbBlocks, dbTransactions, dbBalances, dbProofs, now,
                 tampers, mk, ut>>

\* The end of the test (lines 460-466): one more minePendingTransactions when
\* the queue is not empty.
TestFinal ==
  /\ proc[CliProc].pc = "idle"
  /\ nsent = MaxTestTx
  /\ nsent' = MaxTestTx + 1
  /\ IF Len(pendingTransactions) > 0
       THEN proc' = [proc EXCEPT ![CliProc] = Local("acquire", NoTx, minerAddress, 0, 0)]
       ELSE UNCHANGED proc
  /\ UNCHANGED <<chain, pendingTransactions, miningLock, dbVars, now, tampers, mk, ut, hold>>

NextTest ==
  \/ \E hasWallet \in BOOLEAN : TestTransfer(hasWallet)
  \/ TestSavePending
  \/ TestFinal
  \/ AcquireLock
  \/ \E p \in Miners : MineDirect(p, minerAddress)
  \/ \E p \in Procs : SaveBlock(p)
  \/ \E p \in Procs : SaveTx(p)
  \/ \E p \in Procs : UpdateBalances(p)
  \/ \E p \in Procs : SaveMerkle(p)
  \/ \E p \in Procs : ClearPending(p)
  \/ \E p \in Procs : ReleaseLock(p)

SpecTest == Init /\ [][NextTest]_vars

\* ------------------------------------------------------------- tampering
\* Something outside the ledger changes one field of one block of the chain,
\* between two operations of the ledger.
BlockFields ==
  {"index", "previousHash", "timestamp", "transactions", "difficulty", "merkleRoot",
   "nonce", "originTransactionHash", "hash"}

\* A string other than s.
Forged(s) == Append(s, ZEROTOK)

\* Block b with the value of field f changed and nothing else.
Tampered(b, f) ==
  IF f = "index" THEN [b EXCEPT !.index = b.index + 1]
  ELSE IF f = "previousHash" THEN [b EXCEPT !.previousHash = Forged(b.previousHash)]
  ELSE IF f = "timestamp" THEN [b EXCEPT !.timestamp = b.timestamp + 1]
  ELSE IF f = "transactions" THEN [b EXCEPT !.transactions[1].amount = b.transactions[1].amount + 1]
  ELSE IF f = "difficulty" THEN [b EXCEPT !.difficulty = b.difficulty + 1]
  ELSE IF f = "merkleRoot" THEN [b EXCEPT !.merkleRoot = Forged(b.merkleRoot)]
  ELSE IF f = "nonce" THEN [b EXCEPT !.nonce = b.nonce + 1]
  ELSE IF f = "originTransactionHash"
    THEN [b EXCEPT !.originTransactionHash = Forged(b.originTransactionHash)]
  ELSE [b EXCEPT !.hash = Forged(b.hash)]

Quiet == \A p \in Procs : proc[p].pc \in {"idle", "done"}

Tamper(i, f) ==
  /\ tampers < MaxTamper
  /\ Quiet
  /\ i \in 1..Len(chain)
  /\ chain' = [chain EXCEPT ![i] = Tampered(chain[i], f)]
  /\ tampers' = tampers + 1
  /\ UNCHANGED <<pendingTransactions, miningLock, dbVars, now, nsent, proc, mk, ut, hold>>

NextTamper ==
  \/ Next
  \/ \E i \in 1..(MaxTx + 1), f \in BlockFields : Tamper(i, f)

SpecTamper == Init /\ [][NextTamper]_vars

\* The ledger when the one field changed from outside is the lineage summary
\* minePendingTransactions re-checks on the tail block.
NextLineage ==
  \/ Next
  \/ \E i \in 1..(MaxTx + 1) : Tamper(i, "originTransactionHash")

SpecLineage == Init /\ [][NextLineage]_vars

\* ------------------------------------------------------------- a MerkleTree under test
LeafValues == {sha256(<<1>>), sha256(<<2>>), sha256(<<3>>)}

LeafLists == UNION {[1..n -> LeafValues] : n \in 1..MaxLeaves}

InitMerkle ==
  /\ InitLedger
  /\ ut = NoUnit
  /\ \E values \in LeafLists :
       mk = [values |-> values, leaf |-> Null, proof |-> << >>,
             root |-> getRootHash(values), result |-> Null, op |-> "built"]

\* tree.getProof(leaf) for a value the tree was built from, as Block.save asks
\* for it, or for the value of one of the tree's leaf nodes.
MGetProof(leaf) ==
  /\ mk.op = "built"
  /\ mk' = [mk EXCEPT !.leaf = leaf, !.proof = getProof(buildTree(mk.values), leaf).proof,
                      !.op = IF getProof(buildTree(mk.values), leaf).found
                               THEN "proof" ELSE "notFound"]
  /\ UNCHANGED <<ledgerVars, ut>>

\* A proof path that is not the stored one: its last element is dropped.
MForgeProof ==
  /\ mk.op = "proof"
  /\ mk' = [mk EXCEPT !.proof = SubSeq(mk.proof, 1, Len(mk.proof) - 1), !.op = "forged"]
  /\ UNCHANGED <<ledgerVars, ut>>

\* A root that is not the tree's.
MForgeRoot ==
  /\ mk.op = "proof"
  /\ mk' = [mk EXCEPT !.root = Forged(mk.root), !.op = "forged"]
  /\ UNCHANGED <<ledgerVars, ut>>

\* MerkleTree.verifyProof(leaf, proof, root)
MVerify ==
  /\ mk.op \in {"proof", "forged"}
  /\ mk' = [mk EXCEPT !.result = verifyProof(mk.leaf, mk.proof, mk.root),
                      !.op = IF mk.op = "proof" THEN "verified" ELSE "verifiedForged"]
  /\ UNCHANGED <<ledgerVars, ut>>

\* getProof for the k-th value the tree was built from.
MGetProofOfValue(k) == k <= Len(mk.values) /\ MGetProof(mk.values[k])

\* getProof for the value of the k-th leaf node.
MGetProofOfLeaf(k) == k <= Len(mk.values) /\ MGetProof(NodeHash(mk.values[k]))

\* getProof for a value that is neither a value the tree was built from nor
\* the value of one of its nodes.
MGetProofOfStranger == MGetProof(Forged(mk.values[1]))

NextMerkle ==
  \/ \E k \in 1..MaxLeaves : MGetProofOfValue(k)
  \/ \E k \in 1..MaxLeaves : MGetProofOfLeaf(k)
  \/ MGetProofOfStranger
  \/ MForgeProof
  \/ MForgeRoot
  \/ MVerify

SpecMerkle == InitMerkle /\ [][NextMerkle]_vars



\* ------------------------------------------------------------- a Transaction or a Block on its own
MaxDifficulty == 2
MaxStamp == 4

\* Transactions to sign and validate: from nobody (a reward), from a wallet
\* address, and from a public key.
UnitTransactions ==
  {Transaction(from, to, amount, timestamp, Null, Null, origin) :
     from \in {NullAddr, G, PublicKey(G), PublicKey(A)}, to \in {A, B},
     amount \in {10}, timestamp \in 1..MaxStamp, origin \in {Null, sha256(<<1>>)}}

\* Blocks to mine.
UnitBlocks ==
  {Block(1, previousHash, timestamp, transactions, d) :
     previousHash \in {<<0>>, sha256(<<1>>)}, timestamp \in 1..MaxStamp,
     transactions \in {<< >>, <<Transaction(NullAddr, minerAddress, miningReward, 1, Null, Null, Null)>>},
     d \in 0..MaxDifficulty}

InitUnit ==
  /\ InitLedger
  /\ mk = NoTree
  /\ \/ \E tx \in UnitTransactions :
          ut = [kind |-> "tx", tx |-> tx, block |-> Null, d |-> 0, result |-> Null,
                op |-> "new", row |-> Null, via |-> "none"]
     \/ \E b \in UnitBlocks :
          ut = [kind |-> "block", tx |-> Null, block |-> b, d |-> b.difficulty,
                result |-> Null, op |-> "new", row |-> Null, via |-> "none"]

\* keyPair.sign(hashTx) with the key of wallet `address`, lines 46-51.
USign(address) ==
  /\ ut.kind = "tx"
  /\ ut.op = "new"
  /\ ut' = [ut EXCEPT !.tx = signWithAddress(ut.tx, address), !.op = "signed"]
  /\ UNCHANGED <<ledgerVars, mk>>

\* The stored hash field is written from outside.
UAlterHash ==
  /\ ut.kind = "tx"
  /\ ut.op = "signed"
  /\ ut' = [ut EXCEPT !.tx.hash = Forged(ut.tx.hash), !.op = "altered"]
  /\ UNCHANGED <<ledgerVars, mk>>

\* tx.isValid()
UIsValid ==
  /\ ut.kind = "tx"
  /\ ut.op \in {"new", "signed", "altered"}
  /\ ut' = [ut EXCEPT !.result = isValid(ut.tx), !.op = "validated"]
  /\ UNCHANGED <<ledgerVars, mk>>

\* tx.save() or tx.savePending() writes the row of the transaction.
USave(pending) ==
  /\ ut.kind = "tx"
  /\ ut.op \in {"new", "signed"}
  /\ ut' = [ut EXCEPT !.row = IF pending THEN PendingRow(ut.tx) ELSE TransactionRow(ut.tx),
                      !.via = IF pending THEN "savePending" ELSE "save",
                      !.op = "stored"]
  /\ UNCHANGED <<ledgerVars, mk>>

\* The hash column of the stored row is written from outside.
UAlterRow ==
  /\ ut.kind = "tx"
  /\ ut.op = "stored"
  /\ ut' = [ut EXCEPT !.row.hash = Forged(ut.row.hash), !.op = "storedAltered"]
  /\ UNCHANGED <<ledgerVars, mk>>

\* The row is read back by one of the paths that rebuild a Transaction.
ULoad(via) ==
  /\ ut.kind = "tx"
  /\ ut.op \in {"stored", "storedAltered"}
  /\ (via \in PendingPaths) = (ut.via = "savePending")
  /\ ut' = [ut EXCEPT !.tx = Reconstruct(via, ut.row).tx,
                      !.result = Reconstruct(via, ut.row).result,
                      !.via = via,
                      !.op = IF ut.op = "stored" THEN "loaded" ELSE "loadedAltered"]
  /\ UNCHANGED <<ledgerVars, mk>>

\* block.hasValidTransactions() for the block under test, or for a block
\* holding the transaction under test.
UHasValidTransactions ==
  /\ ut.op \in {"new", "signed", "altered"}
  /\ LET b == IF ut.kind = "tx" THEN Block(1, <<0>>, ut.tx.timestamp, <<ut.tx>>, 0)
              ELSE ut.block
     IN ut' = [ut EXCEPT !.block = b, !.result = hasValidTransactions(b), !.op = "checked"]
  /\ UNCHANGED <<ledgerVars, mk>>

\* block.mineBlock(d), one turn of its loop (lines 381-386): the hash does not
\* meet the difficulty, so the nonce is incremented and the hash recomputed.
UMineTurn ==
  /\ ut.kind = "block"
  /\ ut.op \in {"new", "mining"}
  /\ ~HasZeroPrefix(ut.block.hash, ut.d)
  /\ ut' = [ut EXCEPT !.block = [ut.block EXCEPT
                                   !.nonce = ut.block.nonce + 1,
                                   !.hash = BlockCalculateHash(
                                              [ut.block EXCEPT !.nonce = ut.block.nonce + 1])],
                      !.op = "mining"]
  /\ UNCHANGED <<ledgerVars, mk>>

\* block.mineBlock(d) returns: the loop test fails.
UMineReturn ==
  /\ ut.kind = "block"
  /\ ut.op \in {"new", "mining"}
  /\ HasZeroPrefix(ut.block.hash, ut.d)
  /\ ut' = [ut EXCEPT !.op = "mined"]
  /\ UNCHANGED <<ledgerVars, mk>>

NextUnit ==
  \/ \E address \in {G, A} : USign(address)
  \/ UAlterHash
  \/ UIsValid
  \/ UHasValidTransactions
  \/ \E pending \in BOOLEAN : USave(pending)
  \/ UAlterRow
  \/ \E via \in LoadPaths : ULoad(via)
  \/ UMineTurn
  \/ UMineReturn

SpecUnit == InitUnit /\ [][NextUnit]_vars

\* ------------------------------------------------------------- properties
\* An invocation of minePendingTransactions is between its successful
\* acquireLock and the answer of its releaseLock.
InCriticalSection(p) ==
  /\ p # GenProc
  /\ proc[p].pc \in {"saveBlock", "saveTx", "updateBalances", "saveMerkle", "clearPending",
                     "release"}

Callers == Procs \ {GenProc}

IsTransfer(tx, from, to, amount) ==
  tx.fromAddress = from /\ tx.toAddress = to /\ tx.amount = amount

\* C1: at most one invocation of minePendingTransactions is inside the
\* critical section at any time, and an invocation that meets the lock held
\* by another returns with the length of the chain unchanged.
C1_MutualExclusion ==
  /\ [](\A p, q \in Callers : InCriticalSection(p) /\ InCriticalSection(q) => p = q)
  /\ [][\A p \in Callers :
          (/\ \E q \in Callers \ {p} : InCriticalSection(q)
           /\ proc'[p] # proc[p])
          => Len(chain') = Len(chain) /\ ~InCriticalSection(p)']_vars

C1_Witness ==
  /\ proc[CliProc].pc = "acquire"
  /\ InCriticalSection(TimerProc)
  /\ Len(chain) = 2

\* C2: the lock is held only while some invocation is inside the critical
\* section: whichever way an invocation that took the lock ends (no block,
\* some blocks, a failed lineage check, a rejected block.save or
\* clearPendingTransactions), the lock is free once it has returned.
C2_LockReleased == miningLock => \E p \in Callers : InCriticalSection(p)

\* The lineage check failed: the batch left the queue, no block was appended,
\* and the invocation has returned with the lock free.
C2_Witness ==
  /\ Quiet
  /\ ~miningLock
  /\ Len(chain) = 1
  /\ pendingTransactions = << >>
  /\ Len(dbPending) = transactionThreshold

\* C3: the net balance of every address over table transactions is never negative.
C3_NoNegativeBalance == \A a \in Addresses : getBalanceOfAddress(a) >= 0

\* C4: on a fresh ledger whose genesis block credits 1,000,000 to G, after
\* G->A 10 and G->B 10 were submitted, the invocation for miner M that takes
\* the lock appends one block of [txA, txB, reward(M, 100)], and once that
\* block's save has resolved the balances are G = 999,980, A = 10, B = 10, M = 100.
C4_EndToEnd ==
  /\ [][(/\ ~miningLock /\ miningLock'
         /\ Len(chain) = 1
         /\ Len(pendingTransactions) = 2
         /\ IsTransfer(pendingTransactions[1], G, A, 10)
         /\ IsTransfer(pendingTransactions[2], G, B, 10))
        => /\ Len(chain') = 2
           /\ pendingTransactions' = << >>
           /\ \E p \in Callers :
                /\ proc'[p].pc = "saveBlock"
                /\ proc'[p].miner = M =>
                     /\ Len(chain'[2].transactions) = 3
                     /\ SubSeq(chain'[2].transactions, 1, 2) = pendingTransactions
                     /\ IsTransfer(chain'[2].transactions[3], NullAddr, M, 100)]_vars
  /\ []((/\ nsent = 2
         /\ Len(chain) >= 2
         /\ Len(chain[2].transactions) >= 2
         /\ IsTransfer(chain[2].transactions[1], G, A, 10)
         /\ IsTransfer(chain[2].transactions[2], G, B, 10)
         /\ \E p \in Callers : proc[p].pc = "clearPending" /\ proc[p].miner = M
         /\ \E r \in dbTransactions : r.hash = chain[1].transactions[1].hash)
        => /\ Len(chain) = 2
           /\ Len(chain[2].transactions) = 3
           /\ IsTransfer(chain[2].transactions[3], NullAddr, M, 100)
           /\ getBalanceOfAddress(G) = 999980
           /\ getBalanceOfAddress(A) = 10
           /\ getBalanceOfAddress(B) = 10
           /\ getBalanceOfAddress(M) = 100)

C4_Witness ==
  /\ nsent = 2
  /\ Len(chain) = 2
  /\ IsTransfer(chain[2].transactions[1], G, A, 10)
  /\ IsTransfer(chain[2].transactions[2], G, B, 10)
  /\ \E p \in Callers : proc[p].pc = "clearPending" /\ proc[p].miner = M
  /\ getBalanceOfAddress(G) = 999980

\* C5: with nothing changed from outside, every block after the genesis block
\* links to its predecessor's hash, carries its own hash and Merkle root as
\* recomputed, and has its position as index, so isChainValid() is true (also
\* once save has assigned blockHash to the block's transactions).
C5_ChainLinked ==
  /\ \A i \in 2..Len(chain) :
       /\ chain[i].previousHash = chain[i - 1].hash
       /\ chain[i].hash = BlockCalculateHash(chain[i])
       /\ chain[i].merkleRoot = calculateMerkleRoot(chain[i].transactions)
       /\ chain[i].index = i - 1
  /\ ChainValid(chain)

C5_Witness ==
  /\ Quiet
  /\ Len(chain) = 3
  /\ \A i \in 2..3 : \A k \in 1..Len(chain[i].transactions) :
       chain[i].transactions[k].blockHash = chain[i].hash

\* C6: changing one field of one block of a valid chain makes isChainValid() false.
C6_TamperDetected ==
  [][(tampers' = tampers + 1 /\ ChainValid(chain)) => ~ChainValid(chain')]_vars

\* C7: verifyProof returns a true value exactly when the hash folded from the
\* leaf along the proof equals the root.
C7_VerifyIff ==
  mk.op \in {"verified", "verifiedForged"}
    => (Truthy(mk.result) <=> proofHash(mk.leaf, mk.proof, 1) = mk.root)

\* C8: the proof getProof gives for a leaf of a tree of 1 to 5 values, folded
\* from that leaf, reproduces the root of the tree.
C8_RoundTrip ==
  (/\ mk.op = "proof"
   /\ \E k \in 1..Len(mk.values) : mk.leaf \in {mk.values[k], NodeHash(mk.values[k])})
  => proofHash(mk.leaf, mk.proof, 1) = mk.root

\* C9: a block appended by minePendingTransactions holds the first
\* transactionThreshold transactions of the queue in queue order, which leave
\* the queue, and then the reward for the miner as its last transaction, or
\* nothing more when no miner address was given.
C9_BlockContents ==
  [][Len(chain') = Len(chain) + 1 =>
       LET b == chain'[Len(chain')]
           T == transactionThreshold
       IN /\ Len(pendingTransactions) >= T
          /\ Len(b.transactions) >= T
          /\ SubSeq(b.transactions, 1, T) = SubSeq(pendingTransactions, 1, T)
          /\ pendingTransactions' = SubSeq(pendingTransactions, T + 1, Len(pendingTransactions))
          /\ \E p \in Callers :
               /\ proc[p].pc # "saveBlock"
               /\ proc'[p].pc = "saveBlock"
               /\ proc'[p].bi = Len(chain')
               /\ IF proc'[p].miner # NullAddr
                    THEN /\ Len(b.transactions) = T + 1
                         /\ IsTransfer(b.transactions[T + 1], NullAddr, proc'[p].miner,
                                       miningReward)
                    ELSE Len(b.transactions) = T]_vars

C9_Witness ==
  /\ Len(chain) = 2
  /\ Len(chain[2].transactions) = transactionThreshold + 1
  /\ chain[2].transactions[transactionThreshold + 1].fromAddress = NullAddr
  /\ chain[2].transactions[transactionThreshold + 1].toAddress = minerAddress

\* C10: an invocation whose acquireLock fails returns and leaves the chain,
\* the pending queue, the store and the lock as they were.
C10_FailedAcquireFrame ==
  [][(proc[CliProc].pc = "acquire" /\ miningLock /\ proc'[CliProc] # proc[CliProc])
     => /\ proc'[CliProc] = Idle
        /\ UNCHANGED <<chain, pendingTransactions, dbVars, miningLock>>]_vars

C10_Witness ==
  /\ proc[CliProc].pc = "acquire"
  /\ miningLock
  /\ proc[TimerProc].pc = "saveMerkle"

\* A caller's block.save() (chain[proc[p].bi]) is rejected on this step and
\* the catch block of minePendingTransactions has run.
SaveRejected(p) ==
  /\ proc[p].pc \in {"saveBlock", "saveTx", "updateBalances", "saveMerkle"}
  /\ proc'[p].pc = "release"

\* The tail-lineage re-check throws on this step: a batch leaves the queue
\* and no block is appended.
LineageThrown ==
  /\ Len(pendingTransactions') < Len(pendingTransactions)
  /\ Len(chain') = Len(chain)

\* C11: when block.save() of a freshly sealed block fails, the chain is as it
\* was before the cycle: the block that was not persisted is not in it.
C11_FailedSaveRollsBack ==
  [][\A p \in Callers : SaveRejected(p) => Len(chain') = proc[p].bi - 1]_vars

\* C12: when a cycle aborts after it dequeued its batch (block.save()
\* rejected, or the lineage re-check thrown), the dequeued transfers are in
\* the pending queue again.
C12_BatchRestored ==
  [][/\ \A p \in Callers :
          SaveRejected(p) =>
            \A k \in 1..Len(chain[proc[p].bi].transactions) :
              LET tx == chain[proc[p].bi].transactions[k]
              IN tx.fromAddress # NullAddr =>
                   \E j \in 1..Len(pendingTransactions') : pendingTransactions'[j].hash = tx.hash
     /\ LineageThrown =>
          \A k \in 1..transactionThreshold :
            \E j \in 1..Len(pendingTransactions') :
              pendingTransactions'[j].hash = pendingTransactions[k].hash]_vars

\* The hashes of the transfers (transactions with a sender) of a list.
RECURSIVE TransferHashes(_, _)
TransferHashes(transactions, i) ==
  IF i > Len(transactions) THEN << >>
  ELSE (IF transactions[i].fromAddress # NullAddr THEN <<transactions[i].hash>> ELSE << >>)
       \o TransferHashes(transactions, i + 1)

\* The hashes of the transfers of blocks i.. of a chain.
RECURSIVE ChainTransferHashes(_, _)
ChainTransferHashes(c, i) ==
  IF i > Len(c) THEN << >>
  ELSE TransferHashes(c[i].transactions, 1) \o ChainTransferHashes(c, i + 1)

\* Every transfer the ledger holds in memory: in a block or in the queue.
Held(c, queue) == ChainTransferHashes(c, 1) \o TransferHashes(queue, 1)

Range(seq) == {seq[k] : k \in 1..Len(seq)}

C16_LineageSummary ==
  /\ [](\A i \in 1..Len(chain) : LineageOk(chain[i]))
  /\ [][~LineageThrown]_vars

\* The re-check passed on the first mined block and the second one carries a
\* transaction hash as its summary (the origin of its second transfer, behind
\* the reward).
C16_Witness ==
  /\ Len(chain) = 3
  /\ chain[3].originTransactionHash # Null
  /\ chain[3].transactions[Len(chain[3].transactions)].originTransactionHash = Null

\* Every Transaction object or row the ledger holds.
AllTransactions ==
  {proc[p].tx : p \in Procs}
  \cup Range(pendingTransactions)
  \cup UNION {Range(chain[i].transactions) : i \in 1..Len(chain)}
  \cup dbTransactions
  \cup Range(dbPending)

WithoutBlockHash(b) ==
  [b EXCEPT !.transactions = [k \in 1..Len(b.transactions) |->
                                [b.transactions[k] EXCEPT !.blockHash = Null]]]

RECURSIVE Leaves(_)
Leaves(node) ==
  IF node.left = Null THEN <<node>>
  ELSE Leaves(node.left[1]) \o (IF node.right = Null THEN << >> ELSE Leaves(node.right[1]))

\* C17: the root of a tree built from an odd number of values is the root of
\* the tree built from the same values with the last one repeated (for three
\* values l0, l1, l2: the tree of l0, l1, l2, l2), and the node that completes
\* the leaf level is flagged as a copy.
C17_OddPadding ==
  (mk.op = "built" /\ Len(mk.values) % 2 = 1)
  => LET last == mk.values[Len(mk.values)]
         leaves == Leaves(buildTree(mk.values))
     IN /\ mk.root = getRootHash(Append(mk.values, last))
        /\ leaves[Len(mk.values) + 1].isCopied
        /\ leaves[Len(mk.values) + 1].value = NodeHash(last)

C17_Witness ==
  /\ mk.op = "built"
  /\ Len(mk.values) = 3
  /\ mk.values[1] # mk.values[3]
  /\ mk.values[2] # mk.values[3]

\* C18: getProof returns a proof only for a value that is a leaf of the tree,
\* and fails with the leaf-not-found error for every other value.
C18_LeafNotFound ==
  mk.op = "proof"
  => \E k \in 1..Len(mk.values) : mk.leaf \in {mk.values[k], NodeHash(mk.values[k])}

\* C15: when mineBlock(d) returns, the first d hex characters of the block's
\* hash are '0' and the hash is calculateHash() of the block with its final
\* nonce; for d = 0 the nonce is 0; the search starts at nonce 0 and every
\* turn of it adds 1 to the nonce, so no smaller nonce met the difficulty.
C15_MineBlock ==
  /\ [](ut.op = "new" /\ ut.kind = "block" => ut.block.nonce = 0)
  /\ [](ut.op = "mined"
        => LET b == ut.block
               AtNonce(n) == BlockCalculateHash([b EXCEPT !.nonce = n])
           IN /\ \A k \in 1..ut.d : HexIsZero(b.hash, k)
              /\ b.hash = BlockCalculateHash(b)
              /\ \A n \in 0..(b.nonce - 1) : \E k \in 1..ut.d : ~HexIsZero(AtNonce(n), k)
              /\ (ut.d = 0 => b.nonce = 0))
  /\ [][ut.kind = "block"
        => \/ ut'.block = ut.block
           \/ /\ ut'.block.nonce = ut.block.nonce + 1
              /\ [ut'.block EXCEPT !.nonce = 0, !.hash = Null]
                 = [ut.block EXCEPT !.nonce = 0, !.hash = Null]]_vars

C15_Witness ==
  /\ ut.op = "mined"
  /\ ut.d = MaxDifficulty
  /\ ut.block.nonce >= 2

\* The signature of tx is the one the key behind tx.fromAddress makes over
\* calculateHash().
SignatureVerifies(tx) ==
  /\ tx.signature # Null
  /\ KeyVerify(tx.fromAddress, TxCalculateHash(tx), tx.signature)

\* C14: for a transaction whose fromAddress is not null, isValid() is true
\* exactly when the stored hash equals calculateHash() and the signature
\* verifies under fromAddress.
C14_IsValidIff ==
  (ut.op = "validated" /\ ut.tx.fromAddress # NullAddr)
  => ((ut.result = "true") <=>
        (ut.tx.hash = TxCalculateHash(ut.tx) /\ SignatureVerifies(ut.tx)))

\* C21: a Transaction rebuilt from a stored row, by whichever path, is
\* tamper-checked: the path fails with the hash-mismatch error exactly when
\* the stored hash differs from the digest recomputed from the rebuilt fields
\* (so a row written by save or savePending and not altered is rebuilt
\* without error).
C21_LoadChecksHash ==
  ut.op \in {"loaded", "loadedAltered"}
  => ((ut.result = "throw") <=> (ut.row.hash # TxCalculateHash(ut.tx)))

\* C22: hasValidTransactions() returns true when every transaction of the
\* block has a matching hash, a valid signature (or is a reward) and a sender
\* balance that covers its amount, and returns false, raising no error, on
\* any violation.
C22_ValidOrFalse ==
  ut.op = "checked"
  => LET txs == ut.block.transactions
         Sound(tx) ==
           /\ verifyTransaction(tx)
           /\ isValid(tx) = "true"
           /\ (tx.fromAddress = NullAddr \/ getBalanceOfAddress(tx.fromAddress) >= tx.amount)
     IN /\ ut.result \in {"true", "false"}
        /\ (ut.result = "true") <=> (\A k \in 1..Len(txs) : Sound(txs[k]))

\* C23: isValid() returns true for every transaction whose fromAddress is
\* null, with or without a signature; for a fromAddress that is not null and
\* a signature that is absent or empty it throws instead of returning.
C23_RewardOrSignatureError ==
  ut.op = "validated"
  => /\ ut.tx.fromAddress = NullAddr => ut.result = "true"
     /\ (ut.tx.fromAddress # NullAddr /\ ut.tx.signature = Null) => ut.result = "throw"

C23_Witness ==
  /\ ut.op = "validated"
  /\ ut.tx.fromAddress = PublicKey(G)
  /\ ut.tx.signature = Null
  /\ ut.result = "throw"

\* A caller is past the loop of minePendingTransactions, about to release the
\* lock, and has met no failure.
ReturningClean == (\E p \in Callers : proc[p].pc = "release") /\ ~hold.failed

\* C24 as stated: an invocation that took the lock with n transactions queued
\* and met no failure has appended n div transactionThreshold blocks, and
\* returns with n mod transactionThreshold transactions queued.
C24_BlocksPerHold ==
  ReturningClean
  => /\ hold.blocks = hold.n \div transactionThreshold
     /\ Len(pendingTransactions) = hold.n % transactionThreshold

\* C24, amended: the transactions queued while the invocation is in its loop
\* count as well. With n queued when the lock was taken and a queued during
\* the loop, an invocation that met no failure has appended
\* (n + a) div transactionThreshold blocks within its one hold of the lock and
\* leaves the loop with (n + a) mod transactionThreshold transactions queued;
\* every step leaves the queue in order: it grows at its end or loses one
\* batch at its head.
C24_BlocksPerBatch ==
  /\ [](ReturningClean
        => hold.blocks = (hold.n + hold.arrived) \div transactionThreshold)
  /\ [][\A p \in Callers :
          (proc[p].pc # "release" /\ proc'[p].pc = "release" /\ ~hold'.failed)
          => /\ miningLock'
             /\ Len(pendingTransactions') = (hold'.n + hold'.arrived) % transactionThreshold]_vars
  /\ [][\/ pendingTransactions' = pendingTransactions
        \/ /\ Len(pendingTransactions') = Len(pendingTransactions) + 1
           /\ SubSeq(pendingTransactions', 1, Len(pendingTransactions)) = pendingTransactions
        \/ /\ Len(pendingTransactions) >= transactionThreshold
           /\ Len(chain') = Len(chain) + 1
           /\ pendingTransactions' = SubSeq(pendingTransactions, transactionThreshold + 1,
                                            Len(pendingTransactions))]_vars

\* Two blocks were appended in one hold of the lock that began with one batch queued.
C24_Witness ==
  /\ ReturningClean
  /\ hold.n = transactionThreshold
  /\ hold.arrived = transactionThreshold
  /\ hold.blocks = 2

\* C25: an invocation of minePendingTransactions that takes the lock while
\* the queue is shorter than transactionThreshold goes straight to the release
\* of the lock: taking the lock and releasing it change neither the chain
\* (no block, no reward transaction), nor the queue, nor any table.
C25_BelowThreshold ==
  /\ [][(~miningLock /\ miningLock' /\ Len(pendingTransactions) < transactionThreshold)
        => /\ chain' = chain
           /\ pendingTransactions' = pendingTransactions
           /\ dbVars' = dbVars
           /\ hold'.blocks = 0
           /\ \E p \in Callers : proc[p].pc # "release" /\ proc'[p].pc = "release"]_vars
  /\ [][(miningLock /\ ~miningLock')
        => /\ chain' = chain
           /\ pendingTransactions' = pendingTransactions
           /\ dbVars' = dbVars]_vars

\* The lock was taken with one transaction queued, and is about to be released.
C25_Witness ==
  /\ ReturningClean
  /\ hold.n = 1
  /\ hold.blocks = 0
  /\ Len(chain) = 1
  /\ Len(pendingTransactions) = 1

\* The caller is between the push of its block and the end of block.save().
Persisting(p) == proc[p].pc \in {"saveBlock", "saveTx", "updateBalances", "saveMerkle"}

\* C26: every block after genesis is appended in this order, all of it inside
\* one hold of the mining lock: the lock is taken; in one synchronous stretch
\* the batch is dequeued, the reward appended, the block built on the chain
\* tail, the tail's lineage re-checked, the proof-of-work search run and the
\* block pushed; then the block is persisted, then the persisted pending
\* queue is cleared; the lock is released only when the loop has ended. No
\* block is pushed outside a hold or before its search has finished.
C26_CycleOrder ==
  /\ [](\A p \in Callers :
          /\ InCriticalSection(p) => miningLock
          /\ Persisting(p)
             => /\ proc[p].bi = Len(chain)
                /\ HasZeroPrefix(chain[Len(chain)].hash, difficulty)
          /\ proc[p].pc = "clearPending"
             => /\ BlockRow(chain[Len(chain)]) \in dbBlocks
                /\ \A k \in 1..Len(chain[Len(chain)].transactions) :
                     chain[Len(chain)].transactions[k] \in dbTransactions)
  /\ [][Len(chain') # Len(chain)
        => LET tail == chain[Len(chain)]
               b == chain'[Len(chain')]
           IN /\ Len(chain') = Len(chain) + 1
              /\ SubSeq(chain', 1, Len(chain)) = chain
              /\ miningLock'
              /\ b.index = Len(chain)
              /\ b.previousHash = tail.hash
              /\ LineageOk(tail)
              /\ HasZeroPrefix(b.hash, difficulty)
              /\ b.hash = BlockCalculateHash(b)
              /\ Len(pendingTransactions') = Len(pendingTransactions) - transactionThreshold
              /\ b.transactions[Len(b.transactions)].fromAddress = NullAddr
              /\ \E p \in Callers :
                   /\ \/ ~miningLock /\ ~InCriticalSection(p)
                      \/ miningLock /\ proc[p].pc = "clearPending"
                   /\ proc'[p].pc = "saveBlock"]_vars
  /\ [][\A r \in dbBlocks' \ dbBlocks :
          r.index > 0 => miningLock /\ r.index < Len(chain) /\ r = BlockRow(chain[r.index + 1])]_vars
  /\ [][(dbPending # << >> /\ dbPending' = << >>)
        => /\ miningLock
           /\ BlockRow(chain[Len(chain)]) \in dbBlocks
           /\ \E p \in Callers : proc[p].pc = "clearPending"]_vars
  /\ [][(miningLock /\ ~miningLock')
        => /\ ~hold.open
           /\ \E p \in Callers : proc[p].pc = "release" /\ proc'[p].pc = "idle"]_vars

\* The second block after genesis is persisted and its holder is about to
\* clear the persisted pending queue.
C26_Witness ==
  /\ Len(chain) = 3
  /\ miningLock
  /\ \E p \in Callers : proc[p].pc = "clearPending"
  /\ Len(dbPending) >= transactionThreshold

\* C27: every transaction with a fromAddress that is not null, in the queue,
\* in a block of the chain or in a row of the store, carries a signature.
C27_Signed ==
  \A tx \in Range(pendingTransactions)
            \cup UNION {Range(chain[i].transactions) : i \in 1..Len(chain)}
            \cup dbTransactions \cup Range(dbPending) :
    tx.fromAddress # NullAddr => tx.signature # Null

\* The transfers admitted so far: those in the queue and in the blocks.
AdmittedTransfers ==
  {tx \in Range(pendingTransactions)
            \cup UNION {Range(chain[i].transactions) : i \in 1..Len(chain)} :
     tx.fromAddress # NullAddr}

\* C28: the transfers of one sender form one unbranched lineage: no two of
\* them have the same originTransactionHash (null, for the sender's first,
\* included), each pointing at the sender's transfer just before it, pending
\* or mined.
C28_UnbranchedLineage ==
  \A t1 \in AdmittedTransfers : \A t2 \in AdmittedTransfers :
    (t1.hash # t2.hash /\ t1.fromAddress = t2.fromAddress)
    => t1.originTransactionHash # t2.originTransactionHash

\* The parent digest verifyProof computes from a value and its sibling: the
\* smaller of the two first.
Combine(a, b) == IF StrLess(a, b) THEN NodeHash(a \o b) ELSE NodeHash(b \o a)

\* Every parent of the tree under node holds Combine of its children's values.
RECURSIVE CombinedInOrder(_)
CombinedInOrder(node) ==
  \/ node.left = Null
  \/ /\ node.value = Combine(node.left[1].value, node.right[1].value)
     /\ CombinedInOrder(node.left[1])
     /\ CombinedInOrder(node.right[1])

\* C29: buildTree computes every parent as Digest(min(a, b) ++ max(a, b)) of
\* its children a and b, the value verifyProof computes when it folds a with
\* sibling b, whichever of the two is on the left.
C29_SameCombination ==
  mk.op = "built" => CombinedInOrder(buildTree(mk.values))

\* The rows Block.save writes after the row of block b are all in the store:
\* its transactions, with their blockHash, and their Merkle proofs.
WriteSetStored(b) ==
  /\ \A k \in 1..Len(b.transactions) :
       [b.transactions[k] EXCEPT !.blockHash = b.hash] \in dbTransactions
  /\ \A k \in 1..Len(b.transactions) :
       \E r \in dbProofs : r.blockHash = b.hash /\ r.transactionHash = b.transactions[k].hash

\* C30: a block's write set is committed as one: whenever no Block.save is
\* under way, after a failed one included, the row of a block is in table
\* blocks exactly when its transactions and their Merkle proofs are stored.
C30_AtomicWriteSet ==
  (\A p \in Procs : ~Persisting(p))
  => \A i \in 1..Len(chain) :
       (BlockRow(chain[i]) \in dbBlocks) <=> WriteSetStored(chain[i])

\* The sum of the amounts of the reward rows (from_address NULL) of a set of rows.
RECURSIVE RewardAmounts(_)
RewardAmounts(rows) ==
  IF rows = {} THEN 0
  ELSE LET r == CHOOSE x \in rows : TRUE
       IN (IF r.fromAddress = NullAddr THEN r.amount ELSE 0) + RewardAmounts(rows \ {r})

\* The sum of getBalanceOfAddress over all addresses.
TotalSupply ==
  getBalanceOfAddress(G) + getBalanceOfAddress(M) + getBalanceOfAddress(A)
  + getBalanceOfAddress(B)

\* The blocks after the genesis block that carry a reward transaction.
RewardedBlocks ==
  {i \in 2..Len(chain) :
     \E k \in 1..Len(chain[i].transactions) : chain[i].transactions[k].fromAddress = NullAddr}

\* Every block of the chain has been saved whole and no save is under way.
AllSaved ==
  /\ \A p \in Procs : ~Persisting(p)
  /\ \A i \in 1..Len(chain) : BlockRow(chain[i]) \in dbBlocks /\ WriteSetStored(chain[i])

\* C31: supply conservation: the net balances of all addresses sum to the
\* amounts of the stored reward transactions, so a transfer never changes the
\* total; once the genesis block and every mined block are saved, the total is
\* 1,000,000 plus miningReward for each mined block that carries a reward.
C31_SupplyConserved ==
  /\ TotalSupply = RewardAmounts(dbTransactions)
  /\ AllSaved => TotalSupply = 1000000 + miningReward * Cardinality(RewardedBlocks)

\* A mined block with a transfer between two addresses is saved whole, as is
\* the genesis block.
C31_Witness ==
  /\ AllSaved
  /\ Len(chain) >= 2
  /\ \E r \in dbTransactions : r.fromAddress # NullAddr /\ r.fromAddress # r.toAddress

\* The hashes of a sequence of transactions or rows, in order.
Hashes(seq) == [k \in 1..Len(seq) |-> seq[k].hash]

\* C32: whenever no submission and no mining cycle is in progress and every
\* block has been saved whole, table pending_transactions holds exactly the
\* transactions of the in-memory queue, in order; and a step that removes rows
\* from the table removes only rows of transactions sealed into the tail block.
C32_PendingStoreIsQueue ==
  /\ []((Quiet /\ AllSaved) => Hashes(dbPending) = Hashes(pendingTransactions))
  /\ [][\A k \in 1..Len(dbPending) :
          (\A j \in 1..Len(dbPending') : dbPending'[j].hash # dbPending[k].hash)
          => \E t \in Range(chain[Len(chain)].transactions) : t.hash = dbPending[k].hash]_vars

\* ------------------------------------------------------------- a store that outlives the ledger
\* Ledgers constructed against one store in one run.
MaxLedgers == 2

\* The genesis block a constructor builds at time t.
GenesisBlockAt(t) ==
  mineBlock(Block(0, <<0>>, t,
                  <<Transaction(NullAddr, genesisAddress, initialReward, t, Null, Null, Null)>>,
                  difficulty),
            difficulty)

\* The rows of table blocks with index 0.
GenesisRows == {r \in dbBlocks : r.index = 0}

\* new Blockchain() at time t: the fields of the new ledger, its genesis
\* block pushed and the save of that block started and not awaited.
NewBlockchain(t) ==
  /\ now' = t
  /\ pendingTransactions' = << >>
  /\ hold' = NoHold
  /\ UNCHANGED <<miningLock, dbVars, nsent, tampers, mk>>

\* The program is started again on the store of a ledger whose genesis block
\* was stored: main() constructs a Blockchain (blockchain-cli.js 30).
Construct ==
  /\ Quiet
  /\ BlockRow(chain[1]) \in dbBlocks
  /\ Cardinality(GenesisRows) < MaxLedgers
  /\ NewBlockchain(DateNow)
  /\ chain' = <<GenesisBlockAt(DateNow)>>
  /\ proc' = [p \in Procs |-> IF p = GenProc THEN Local("saveBlock", NoTx, NullAddr, 1, 1) ELSE Idle]
  /\ UNCHANGED ut

\* The block Block.load builds from a row of table blocks before it reads the
\* transactions (lines 476-485): the constructor computes originTransactionHash
\* over no transactions, and the stored hash, nonce and merkleRoot are assigned.
BlockOfRow(r) ==
  [Block(r.index, r.previousHash, r.timestamp, << >>, r.difficulty)
     EXCEPT !.hash = r.hash, !.nonce = r.nonce, !.merkleRoot = r.merkleRoot]

\* The orders in which a query without ORDER BY may return a set of rows.
Orders(rows) ==
  {s \in [1..Cardinality(rows) -> rows] :
     \A i \in 1..Cardinality(rows) : \A j \in 1..Cardinality(rows) : i # j => s[i] # s[j]}

\* The loop of Block.load over the rows of the block's transactions (lines
\* 491-504). Transaction.load throws the hash-mismatch error inside the
\* callback of its query and isValid throws inside the async callback of
\* Block.load: in both cases the promise of Block.load is never settled.
RECURSIVE LoadTransactions(_, _, _)
LoadTransactions(rows, i, acc) ==
  IF i > Len(rows) THEN [result |-> "ok", transactions |-> acc]
  ELSE LET loaded == Reconstruct("load", rows[i])
       IN IF loaded.result = "throw" THEN [result |-> "unsettled", transactions |-> acc]
          ELSE IF isValid(loaded.tx) = "throw" THEN [result |-> "unsettled", transactions |-> acc]
          ELSE IF isValid(loaded.tx) = "false" THEN [result |-> "reject", transactions |-> acc]
          ELSE LoadTransactions(rows, i + 1, Append(acc, loaded.tx))

\* Block.load(r.hash) when the transactions query answers the rows in `order`:
\* "resolve" with the block, "reject", or "unsettled".
BlockLoad(r, order) ==
  LET l == LoadTransactions(order, 1, << >>)
      block == [BlockOfRow(r) EXCEPT !.transactions = l.transactions]
  IN [result |-> IF l.result # "ok" THEN l.result
                 ELSE IF block.hash # BlockCalculateHash(block) THEN "reject"
                 ELSE IF block.merkleRoot # calculateMerkleRoot(block.transactions) THEN "reject"
                 ELSE "resolve",
      block |-> block]

\* Block.load(hash) of a block whose save has resolved, from a ledger at rest.
LoadBlock(i) ==
  /\ Quiet
  /\ ut.op = "none"
  /\ i \in 1..Len(chain)
  /\ BlockRow(chain[i]) \in dbBlocks
  /\ WriteSetStored(chain[i])
  /\ \E order \in Orders({r \in dbTransactions : r.blockHash = chain[i].hash}) :
       LET l == BlockLoad(BlockRow(chain[i]), order)
       IN ut' = [NoUnit EXCEPT !.kind = "block", !.block = l.block, !.result = l.result,
                               !.op = "Block.load", !.row = chain[i]]
  /\ UNCHANGED <<ledgerVars, mk>>

\* The answers of SELECT * FROM blocks ORDER BY index ASC over a set of rows.
ByIndex(rows) ==
  {s \in Orders(rows) :
     \A i \in 1..Len(s) : \A j \in 1..Len(s) : i < j => s[i].index <= s[j].index}

\* The loop of Blockchain.load over the rows (lines 788-793), from row i on,
\* with the chain built so far: the outcomes, one for each order in which the
\* transactions of the blocks may be answered. A Block.load that rejects
\* throws inside the async callback of the query, so that the promise of
\* Blockchain.load is never settled, as it is when Block.load never settles.
RECURSIVE LoadBlocks(_, _, _)
LoadBlocks(rows, i, acc) ==
  IF i > Len(rows) THEN {[result |-> "ok", chain |-> acc]}
  ELSE UNION {LET l == BlockLoad(rows[i], order)
              IN IF l.result = "resolve" THEN LoadBlocks(rows, i + 1, Append(acc, l.block))
                 ELSE {[result |-> "unsettled", chain |-> acc]} :
                order \in Orders({r \in dbTransactions : r.blockHash = rows[i].hash})}

\* Blockchain.load(): a Blockchain is constructed, whose genesis block is
\* pushed and whose save is started, and the blocks of the store are loaded
\* and pushed after it; the chain is then checked (lines 783-802). The row of
\* the new genesis block is among the rows the query answers, or not.
LoadBlockchain ==
  /\ Quiet
  /\ ut.op = "none"
  /\ BlockRow(chain[1]) \in dbBlocks
  /\ Cardinality(GenesisRows) < MaxLedgers
  /\ NewBlockchain(DateNow)
  /\ \E seen \in BOOLEAN :
       \E rows \in ByIndex(dbBlocks \cup (IF seen THEN {BlockRow(GenesisBlockAt(DateNow))} ELSE {})) :
         \E l \in LoadBlocks(rows, 1, <<GenesisBlockAt(DateNow)>>) :
           LET result == IF l.result # "ok" THEN "unsettled"
                         ELSE IF ChainValid(l.chain) THEN "resolve" ELSE "reject"
           IN /\ chain' = l.chain
              /\ ut' = [NoUnit EXCEPT !.kind = "chain", !.result = result, !.op = "Blockchain.load"]
              /\ proc' = [p \in Procs |->
                            IF p = GenProc THEN Local("saveBlock", NoTx, NullAddr, 1, 1)
                            ELSE IF result = "resolve" THEN Idle
                            ELSE Local("exited", NoTx, NullAddr, 0, 0)]

\* The keys of calculatedBalances: every from_address and to_address of the
\* history, the key "null" of the reward transactions included.
CalculatedKeys ==
  {r.fromAddress : r \in dbTransactions} \cup {r.toAddress : r \in dbTransactions}

\* getBalanceOfAddress for a key of calculatedBalances: no row has the string
\* "null" as its from_address or to_address.
GatewayBalance(key) == IF key = NullAddr THEN 0 ELSE getBalanceOfAddress(key)

\* validateDatabaseState over the history getAllTransactions answers.
validateDatabaseState ==
  \A key \in CalculatedKeys :
    GatewayBalance(key) = SumAmounts({TransactionOfAll(r) : r \in dbTransactions}, key)

\* blockchain.validateDatabaseState() on a ledger at rest; or the store
\* rejects one of its queries.
Validate ==
  /\ Quiet
  /\ ut.op = "none"
  /\ \E result \in {IF validateDatabaseState THEN "true" ELSE "false", "throw"} :
       ut' = [NoUnit EXCEPT !.kind = "ledger", !.result = result, !.op = "validateDatabaseState"]
  /\ UNCHANGED <<ledgerVars, mk>>

NextLoad ==
  \/ SendTransaction(genesisAddress, A, 10)
  \/ GetLatest
  \/ SavePending
  \/ LoadPending
  \/ AcquireLock
  \/ \E p \in Miners : MineDirect(p, minerAddress)
  \/ \E p \in Procs : SaveBlock(p)
  \/ \E p \in Procs : SaveTx(p)
  \/ \E p \in Procs : UpdateBalances(p)
  \/ \E p \in Procs : SaveMerkle(p)
  \/ \E p \in Procs : ClearPending(p)
  \/ \E p \in Procs : ReleaseLock(p)
  \/ Construct
  \/ LoadBlockchain
  \/ \E i \in 1..(MaxTx + 1) : LoadBlock(i)
  \/ Validate

SpecLoad == Init /\ [][NextLoad]_vars

\* C33: genesis issuance happens once for a store: table blocks holds at most
\* one block with index 0, the rewards the genesis blocks credit to
\* genesisAddress total at most 1,000,000, and Blockchain.load resolves with a
\* chain of one genesis block followed by the stored blocks.
C33_GenesisOnce ==
  /\ Cardinality(GenesisRows) <= 1
  /\ RewardAmounts({r \in dbTransactions :
                      /\ r.toAddress = genesisAddress
                      /\ \E b \in GenesisRows : r.blockHash = b.hash}) <= 1000000
  /\ ut.op = "Blockchain.load"
       => /\ ut.result = "resolve"
          /\ chain[1].index = 0
          /\ \A i \in 2..Len(chain) : chain[i].index # 0

\* C34: validateDatabaseState() returns true on the history that genesis
\* initialization and the mining cycles wrote, reward transactions included.
C34_ValidateTrue ==
  (ut.op = "validateDatabaseState" /\ ut.result # "throw") => ut.result = "true"

\* C40: Block.load of a block that Block.save has written resolves with a
\* block that has the hash, nonce, merkleRoot, originTransactionHash and
\* transactions of the saved one and passes its own hash and Merkle-root checks.
C40_SaveLoadRoundTrip ==
  ut.op = "Block.load"
  => /\ ut.result = "resolve"
     /\ ut.block.hash = ut.row.hash
     /\ ut.block.nonce = ut.row.nonce
     /\ ut.block.merkleRoot = ut.row.merkleRoot
     /\ ut.block.originTransactionHash = ut.row.originTransactionHash
     /\ ut.block.transactions = ut.row.transactions
     /\ ut.block.hash = BlockCalculateHash(ut.block)
     /\ ut.block.merkleRoot = calculateMerkleRoot(ut.block.transactions)

\* ------------------------------------------------------------- admission
\* sendTransaction for an input that fails one of its checks: the message is
\* logged and the function returns (one of the returns of lines 109-161).
RejectTransaction(from, privateKey, to, text) ==
  /\ proc[CliProc].pc = "idle"
  /\ ChainValid(chain)
  /\ Admission(from, privateKey, to, parseFloat(text)) # "ok"
  /\ proc' = [proc EXCEPT ![CliProc] = Local("rejected", NoTx, NullAddr, 0, 0)]
  /\ UNCHANGED <<chain, pendingTransactions, miningLock, dbVars, now, nsent, tampers, mk, ut, hold>>

\* The command loop shows its menu again after a rejected submission.
RejectReturn ==
  /\ proc[CliProc].pc = "rejected"
  /\ Return(CliProc)
  /\ UNCHANGED <<chain, pendingTransactions, miningLock, dbVars, now, nsent, tampers, mk, ut, hold>>

\* The ledger with submissions that pass and submissions that fail the checks.
NextAdmission ==
  \/ \E from \in Wallets, amount \in SendAmounts : SendTransaction(from, A, amount)
  \/ \E from \in Wallets \cup {B, ShortAddress},
         privateKey \in {PrivateKey(G), PrivateKey(A), ShortKey},
         to \in {A, ShortAddress}, text \in AmountTexts :
       RejectTransaction(from, privateKey, to, text)
  \/ RejectReturn
  \/ GetLatest
  \/ SavePending
  \/ LoadPending
  \/ AcquireLock
  \/ \E p \in Miners : MineDirect(p, minerAddress)
  \/ \E p \in Procs : SaveBlock(p)
  \/ \E p \in Procs : SaveTx(p)
  \/ \E p \in Procs : UpdateBalances(p)
  \/ \E p \in Procs : SaveMerkle(p)
  \/ \E p \in Procs : ClearPending(p)
  \/ \E p \in Procs : ReleaseLock(p)

SpecAdmission == Init /\ [][NextAdmission]_vars

\* C35: a submission that fails a check of admission (address length, wallet,
\* private key, amount, balance) goes no further: the step that rejects it and
\* the return that follows leave the queue, the pending table, the chain, the
\* other tables and the lock as they were and start no mining; and a
\* submission goes on to be built only from a known wallet, with a positive
\* amount that the sender's balance covers.
C35_RejectedFrame ==
  /\ [][(proc'[CliProc] # proc[CliProc]
          /\ (proc[CliProc].pc = "rejected" \/ proc'[CliProc].pc = "rejected"))
        => /\ UNCHANGED <<chain, pendingTransactions, miningLock, dbVars, hold>>
           /\ proc'[CliProc].pc \in {"rejected", "idle"}
           /\ \A p \in Procs \ {CliProc} : proc'[p] = proc[p]]_vars
  /\ [][(proc[CliProc].pc = "idle" /\ proc'[CliProc].pc = "getLatest")
        => /\ proc'[CliProc].tx.fromAddress \in Wallets
           /\ proc'[CliProc].tx.amount > 0
           /\ getBalanceOfAddress(proc'[CliProc].tx.fromAddress) >= proc'[CliProc].tx.amount]_vars

\* A submission is rejected while a transfer is queued and the genesis block
\* is stored.
C35_Witness ==
  /\ proc[CliProc].pc = "rejected"
  /\ Len(pendingTransactions) = 1
  /\ getBalanceOfAddress(genesisAddress) = 1000000

\* ------------------------------------------------------------- an invalid chain
\* The ledger of SpecChain when the hash of one block is changed from outside,
\* so that isChainValid() is false from then on.
NextChainTamper ==
  \/ NextChain
  \/ \E i \in 1..(MaxChainTx \div transactionThreshold + 1) : Tamper(i, "hash")

SpecChainTamper == Init /\ [][NextChainTamper]_vars

\* C36: while isChainValid() is false no mutating operation takes effect: no
\* transaction is added to the pending queue or to the pending table, and no
\* block is appended to the chain or stored.
C36_InvalidChainFrozen ==
  [][~ChainValid(chain)
     => /\ Range(pendingTransactions') \subseteq Range(pendingTransactions)
        /\ Range(dbPending') \subseteq Range(dbPending)
        /\ Len(chain') = Len(chain)
        /\ dbBlocks' = dbBlocks]_vars

\* ------------------------------------------------------------- a Block and its transactions
\* Transactions of a block under test.
MaxBlockTx == 3

\* The transactions to build blocks from: rewards and transfers, with no
\* origin or with one of two.
BlockTransactionChoices ==
  {Transaction(from, A, 10, 1, Null, Null, origin) :
     from \in {NullAddr, G}, origin \in {Null, sha256(<<1>>), sha256(<<2>>)}}

InitBlock ==
  /\ InitLedger
  /\ mk = NoTree
  /\ \E n \in 0..MaxBlockTx : \E transactions \in [1..n -> BlockTransactionChoices] :
       ut = [kind |-> "block", tx |-> Null, block |-> Block(1, <<0>>, 1, transactions, 0),
             d |-> 0, result |-> Null, op |-> "new", row |-> Null, via |-> "none"]

\* block.calculateLastOriginTransactionHash()
UCalculateLastOrigin ==
  /\ ut.op = "new"
  /\ ut' = [ut EXCEPT !.result = calculateLastOriginTransactionHash(ut.block.transactions),
                      !.op = "lastOrigin"]
  /\ UNCHANGED <<ledgerVars, mk>>

\* Block.save, lines 430-431: tx.blockHash = this.hash for each transaction.
UAssignBlockHash ==
  /\ ut.op = "new"
  /\ Len(ut.block.transactions) >= 1
  /\ ut' = [ut EXCEPT !.block.transactions =
                        [k \in 1..Len(ut.block.transactions) |->
                           [ut.block.transactions[k] EXCEPT !.blockHash = ut.block.hash]],
                      !.op = "saved"]
  /\ UNCHANGED <<ledgerVars, mk>>

\* The fields of a block, other than its transactions, that calculateHash reads.
DigestFields == {"previousHash", "timestamp", "merkleRoot", "nonce", "originTransactionHash"}

\* The fields of a transaction other than blockHash.
TransactionFields ==
  {"fromAddress", "toAddress", "amount", "timestamp", "signature", "originTransactionHash",
   "hash"}

\* Transaction tx with the value of field f changed and nothing else.
TamperedTransaction(tx, f) ==
  IF f = "fromAddress" THEN [tx EXCEPT !.fromAddress = IF tx.fromAddress = G THEN A ELSE G]
  ELSE IF f = "toAddress" THEN [tx EXCEPT !.toAddress = IF tx.toAddress = A THEN B ELSE A]
  ELSE IF f = "amount" THEN [tx EXCEPT !.amount = tx.amount + 1]
  ELSE IF f = "timestamp" THEN [tx EXCEPT !.timestamp = tx.timestamp + 1]
  ELSE IF f = "signature" THEN [tx EXCEPT !.signature = Forged(tx.signature)]
  ELSE IF f = "originTransactionHash"
    THEN [tx EXCEPT !.originTransactionHash = Forged(tx.originTransactionHash)]
  ELSE [tx EXCEPT !.hash = Forged(tx.hash)]

\* One field of the block is written from outside.
UAlterBlock(f) ==
  /\ ut.op = "new"
  /\ ut' = [ut EXCEPT !.block = Tampered(ut.block, f), !.op = "altered"]
  /\ UNCHANGED <<ledgerVars, mk>>

\* One field of the k-th transaction of the block is written from outside.
UAlterTransaction(k, f) ==
  /\ ut.op = "new"
  /\ k <= Len(ut.block.transactions)
  /\ ut' = [ut EXCEPT !.block.transactions[k] = TamperedTransaction(ut.block.transactions[k], f),
                      !.op = "altered"]
  /\ UNCHANGED <<ledgerVars, mk>>

NextBlock ==
  \/ UCalculateLastOrigin
  \/ UAssignBlockHash
  \/ \E f \in DigestFields : UAlterBlock(f)
  \/ \E k \in 1..MaxBlockTx, f \in TransactionFields : UAlterTransaction(k, f)

SpecBlock == InitBlock /\ [][NextBlock]_vars

\* C37: calculateHash() does not read the blockHash of the transactions: the
\* assignment of blockHash to each transaction during save leaves it as it
\* was, while a change of previousHash, timestamp, merkleRoot, nonce,
\* originTransactionHash or of any other field of any transaction changes what
\* is digested.
C37_BlockHashExcluded ==
  /\ [][ut'.op = "saved" /\ ut.op = "new"
        => BlockCalculateHash(ut'.block) = BlockCalculateHash(ut.block)]_vars
  /\ [][ut'.op = "altered" /\ ut.op = "new"
        => BlockCalculateHash(ut'.block) # BlockCalculateHash(ut.block)]_vars

\* The blockHash of three transactions has been assigned.
C37_Witness ==
  /\ ut.op = "saved"
  /\ Len(ut.block.transactions) = 3
  /\ \A k \in 1..3 : ut.block.transactions[k].blockHash = ut.block.hash

\* C38: calculateLastOriginTransactionHash() returns the originTransactionHash
\* of the last transaction when it is not null, otherwise that of the
\* second-to-last transaction, and null for a block without transactions, for
\* one transaction with a null origin and for two last transactions with a
\* null origin; it looks no further back than the second-to-last transaction.
C38_LastOrigin ==
  ut.op = "lastOrigin"
  => LET t == ut.block.transactions
         n == Len(t)
     IN /\ (n >= 1 /\ t[n].originTransactionHash # Null)
             => ut.result = t[n].originTransactionHash
        /\ (n >= 2 /\ t[n].originTransactionHash = Null)
             => ut.result = t[n - 1].originTransactionHash
        /\ n = 0 => ut.result = Null
        /\ (n = 1 /\ t[1].originTransactionHash = Null) => ut.result = Null

\* The last two of three transactions have no origin and the first has one:
\* the result is null.
C38_Witness ==
  /\ ut.op = "lastOrigin"
  /\ Len(ut.block.transactions) = 3
  /\ ut.block.transactions[1].originTransactionHash # Null
  /\ ut.block.transactions[2].originTransactionHash = Null
  /\ ut.block.transactions[3].originTransactionHash = Null
  /\ ut.result = Null

\* ------------------------------------------------------------- a MerkleTree of many leaves
\* The largest number of leaf values a tree is built from.
MaxWide == 1025

\* n is 2^k for some k >= 0.
RECURSIVE IsPowerOfTwo(_)
IsPowerOfTwo(n) == n = 1 \/ (n > 1 /\ n % 2 = 0 /\ IsPowerOfTwo(n \div 2))

\* The numbers of leaf values: the small ones, the powers of two and their
\* successors.
WideCounts == {n \in 1..MaxWide : n <= 9 \/ IsPowerOfTwo(n) \/ IsPowerOfTwo(n - 1)}

\* ceil(log2(n)) for n >= 1.
RECURSIVE CeilLog2(_)
CeilLog2(n) == IF n <= 1 THEN 0 ELSE 1 + CeilLog2((n + 1) \div 2)

\* The number of levels above the leaves of the tree under `node`.
RECURSIVE Height(_)
Height(node) == IF node.left = Null THEN 0 ELSE 1 + Height(node.left[1])

\* The number of nodes on each level of the tree under `node`, read from the
\* root down, every node's children counted.
RECURSIVE LevelCounts(_)
LevelCounts(nodes) ==
  IF nodes[1].left = Null THEN <<Len(nodes)>>
  ELSE <<Len(nodes)>> \o LevelCounts([k \in 1..(2 * Len(nodes)) |->
                                        IF k % 2 = 1 THEN nodes[(k + 1) \div 2].left[1]
                                        ELSE nodes[k \div 2].right[1]])

InitWide ==
  /\ InitLedger
  /\ ut = NoUnit
  /\ \E n \in WideCounts : \E v \in LeafValues :
       mk = [values |-> [k \in 1..n |-> v], leaf |-> Null, proof |-> << >>, root |-> Null,
             result |-> Null, op |-> "new", levels |-> << >>]

\* new MerkleTree(values): the constructor calls buildTree(values), which
\* returns the root or throws.
MBuildTree ==
  /\ mk.op = "new"
  /\ LET root == buildTree(mk.values)
     IN mk' = IF root = DepthError
                THEN [mk EXCEPT !.result = "Max recursion depth exceeded", !.op = "throw"]
                ELSE [mk EXCEPT !.root = root.value, !.result = Height(root),
                                !.levels = LevelCounts(<<root>>), !.op = "buildTree"]
  /\ UNCHANGED <<ledgerVars, ut>>

\* The caller drops the tree.
MDiscard ==
  /\ mk.op \in {"buildTree", "throw"}
  /\ mk' = [mk EXCEPT !.root = Null, !.result = Null, !.levels = << >>, !.op = "new"]
  /\ UNCHANGED <<ledgerVars, ut>>

NextWide == MBuildTree \/ MDiscard

SpecWide == InitWide /\ [][NextWide]_vars

\* C39: buildTree of a non-empty list of N leaf values returns after at most
\* ceil(log2(N)) + 1 levels above the leaves, every level holding half the
\* nodes of the padded level below it, and throws "Max recursion depth
\* exceeded" for no such list, whatever N is.
C39_BuildTreeBounded ==
  /\ mk.op # "throw"
  /\ mk.op = "buildTree"
       => /\ mk.result <= CeilLog2(Len(mk.values)) + 1
          /\ \A l \in 1..(Len(mk.levels) - 1) : 2 * mk.levels[l] = mk.levels[l + 1]

====
